---- MODULE Spec2Model ----
(***************************************************************************)
(* Qiu-Pay: order engine, balance-delta reconciler, payment poller and     *)
(* callback engine.                                                        *)
(*                                                                         *)
(* Scheduling.  Every HTTP handler is an `async def` run on the one        *)
(* asyncio event loop, and the pollers, the expiry sweeper and the retry   *)
(* scanner are tasks of that same loop.  The services they call            *)
(* (OrderService, BalanceChecker, CallbackService) are synchronous: their  *)
(* sqlite3 and httpx calls block the loop.  A task therefore yields only   *)
(* at its `await asyncio.sleep(..)` (and `await request.form()`), and one  *)
(* handler call or one loop iteration is one action here.                  *)
(*                                                                         *)
(* Amounts are integer cents; times are integer seconds; an order's        *)
(* trade_no is its row id.                                                 *)
(***************************************************************************)
EXTENDS Integers, Sequences, FiniteSets, TLC

\* ---- bounds ------------------------------------------------------------
MaxOrders == 2
NumMerchants == 2
MaxRequest == 1
MaxBalance == 4
MaxPay == 3
MaxLogs == 2
MaxNow == 1200
MaxCbNow == 2280
MaxPayTime == 60
MaxRenotifyTime == 120
MaxAttempts == 7
MaxLen == 4
MaxAmount == 3
MaxTarget == 7
MaxTasks == 3
MaxPairs == 3
MaxDict == 2
MaxMills == 15
MaxCheckers == 3
MaxFailures == 4

\* ---- program constants -------------------------------------------------
PENDING == 0
PAID == 1
EXPIRED == 2
PollTimeout == 600
ExpireSeconds == 600
AdjustSteps == 100
ScanSleep == 30
RETRY_INTERVALS == <<5, 30, 60, 300, 1800>>
NULL == -1

Merchants == 1..NumMerchants

VARIABLES
    orders,          \* table orders: a sequence of rows, the row id = trade_no
    merchant_money,  \* column merchants.money, by merchant id
    wallet,          \* the wallets' available balance, by credential id
    balance_logs,    \* table balance_logs
    callback_logs,   \* table callback_logs
    last_notify,     \* the latest notify POST and the merchant's answer
    active_tasks,    \* _active_tasks: trade_no -> the registered poller task
    pollers,         \* the poller tasks created so far, by task id
    reply,           \* the request an endpoint is answering, and its answer
    now,             \* the clock
    last_scan,       \* the time of the retry scanner's latest iteration
    dfs_in, dfs_out, \* an input of _subset_sum_dfs and its result
    helper           \* a call made on its own (its arguments and its result),
                     \* or the merchant of a scenario

vars == <<orders, merchant_money, wallet, balance_logs, callback_logs,
          last_notify, active_tasks, pollers, reply, now, last_scan,
          dfs_in, dfs_out, helper>>

\* ---- helpers -----------------------------------------------------------
RECURSIVE SumSeq(_)
SumSeq(s) == IF s = <<>> THEN 0 ELSE Head(s) + SumSeq(Tail(s))

Range(s) == {s[i] : i \in DOMAIN s}

OrderIds == DOMAIN orders

\* resolve_credential_for_merchant: the merchant's newest active credential.
\* Each merchant owns one credential here, numbered like the merchant.
CredentialOf(m) == m

\* The notify_url of a merchant's requests: merchant 1 passes one, the
\* others pass none (the parameter is optional).
NotifyUrlOf(m) == m = 1

\* The return_url of a merchant's requests, optional as well: merchant 1
\* passes one, the others pass none.
ReturnUrlOf(m) == m = 1


\* ---- reconciler: BalanceChecker ------------------------------------------

\* ORDER BY created_at ASC; rows of equal created_at come in rowid order.
Earlier(ords, i, j) ==
    \/ ords[i].created_at < ords[j].created_at
    \/ ords[i].created_at = ords[j].created_at /\ i < j

\* The ids in `ids`, ordered by Earlier.
RECURSIVE SortByCreated(_, _)
SortByCreated(ords, ids) ==
    IF ids = {} THEN <<>>
    ELSE LET first == CHOOSE i \in ids : \A j \in ids \ {i} : Earlier(ords, i, j)
         IN  <<first>> \o SortByCreated(ords, ids \ {first})

\* _get_pending_orders without its WHERE status = 0.
GetAllOrders(ords) == SortByCreated(ords, DOMAIN ords)

\* _get_pending_orders: every order with status = 0, oldest first.
GetPendingOrders(ords) ==
    SortByCreated(ords, {i \in DOMAIN ords : ords[i].status = PENDING})

\* check_payment without its credential filter.
AnyCredential(ords, pend, cid) == pend

\* check_payment's filter: the pending orders bound to one credential.
SameCredential(ords, pend, cid) ==
    SelectSeq(pend, LAMBDA i : ords[i].credential_id = cid)

NoResult == [found |-> FALSE, idx |-> <<>>]

NoCall == [amounts |-> <<>>, target |-> 0, called |-> FALSE]

\* _subset_sum_dfs.  best is the nonlocal best_result, threaded through the
\* recursion; path holds 1-based positions in amounts.
RECURSIVE Dfs(_, _, _, _, _), DfsLoop(_, _, _, _, _)

\* Dfs keeping the first subset it finds, whatever its size.
DfsFirstFound(amounts, start, remaining, path, best) ==
    IF remaining = 0
    THEN IF ~best.found THEN [found |-> TRUE, idx |-> path] ELSE best
    ELSE IF remaining < 0 THEN best
    ELSE IF best.found /\ Len(best.idx) = 1 THEN best
    ELSE DfsLoop(amounts, start, remaining, path, best)

Dfs(amounts, start, remaining, path, best) ==
    IF remaining = 0
    THEN IF ~best.found \/ Len(path) < Len(best.idx)
         THEN [found |-> TRUE, idx |-> path]
         ELSE best
    ELSE IF remaining < 0 THEN best
    ELSE IF best.found /\ Len(best.idx) = 1 THEN best
    ELSE DfsLoop(amounts, start, remaining, path, best)

\* The `for i in range(start, n)` loop of dfs, from position i on.
DfsLoop(amounts, i, remaining, path, best) ==
    IF i > Len(amounts) THEN best
    ELSE IF amounts[i] > remaining
         THEN DfsLoop(amounts, i + 1, remaining, path, best)
    ELSE IF best.found /\ Len(path) + 1 >= Len(best.idx) THEN best
    ELSE DfsLoop(amounts, i + 1, remaining, path,
                 Dfs(amounts, i + 1, remaining - amounts[i],
                     Append(path, i), best))

SubsetSumDfs(amounts, target) == Dfs(amounts, 1, target, <<>>, NoResult)

\* _mark_orders_paid, the orders table: UPDATE orders SET status = 1,
\* confirm_balance, paid_at WHERE id IN (ids).
MarkOrdersPaid(ords, ids, confirm, t) ==
    [i \in DOMAIN ords |->
        IF i \in ids
        THEN [ords[i] EXCEPT !.status = PAID, !.confirm_balance = confirm,
                             !.paid_at = t]
        ELSE ords[i]]

\* _mark_orders_paid, the merchants table: money = money + the sum of the
\* marked orders of that merchant.
RECURSIVE MerchantTotal(_, _, _)
MerchantTotal(ords, ids, m) ==
    IF ids = {} THEN 0
    ELSE LET i == CHOOSE x \in ids : TRUE
         IN  (IF ords[i].merchant_id = m THEN ords[i].money ELSE 0)
             + MerchantTotal(ords, ids \ {i}, m)

\* _mark_orders_paid without its UPDATE of merchants.
CreditMerchantsNothing(mm, ords, ids) == mm

CreditMerchants(mm, ords, ids) ==
    [m \in DOMAIN mm |-> mm[m] + MerchantTotal(ords, ids, m)]

\* ---- callback engine: CallbackService ------------------------------------

\* A callback_logs row: order_id and attempt.
LogRow(oid, attempt) == [order_id |-> oid, attempt |-> attempt]

\* A notify POST for attempt `attempt` of order oid; ok: the merchant's body,
\* stripped, is "success" (any other body, or a transport error: FALSE).
Post(oid, attempt, ok) == [order_id |-> oid, attempt |-> attempt, ok |-> ok]

NoPost == [order_id |-> 0, attempt |-> 0, ok |-> FALSE]

SetCallback(ords, oid, st, attempts) ==
    [ords EXCEPT ![oid].callback_status = st,
                 ![oid].callback_attempts = attempts]

\* send_notify writing its callback_logs row only when the merchant
\* answered "success".
SendNotifyLogsSuccess(db, oid, ok) ==
    IF oid \notin DOMAIN db.orders THEN db
    ELSE IF ~db.orders[oid].notify_url THEN db
    ELSE LET cur == db.orders[oid].callback_attempts + 1
             st  == IF ok THEN 1
                    ELSE IF cur >= Len(RETRY_INTERVALS) + 1 THEN 2 ELSE 3
         IN  [orders |-> SetCallback(db.orders, oid, st, cur),
              logs   |-> IF ok THEN Append(db.logs, LogRow(oid, cur))
                         ELSE db.logs,
              last   |-> Post(oid, cur, ok)]

\* send_notify giving the callback up one attempt early.
SendNotifyExhaustsEarly(db, oid, ok) ==
    IF oid \notin DOMAIN db.orders THEN db
    ELSE IF ~db.orders[oid].notify_url THEN db
    ELSE LET cur == db.orders[oid].callback_attempts + 1
             st  == IF ok THEN 1
                    ELSE IF cur >= Len(RETRY_INTERVALS) THEN 2 ELSE 3
         IN  [orders |-> SetCallback(db.orders, oid, st, cur),
              logs   |-> Append(db.logs, LogRow(oid, cur)),
              last   |-> Post(oid, cur, ok)]

\* send_notify on db = [orders, logs, last].
SendNotify(db, oid, ok) ==
    IF oid \notin DOMAIN db.orders THEN db
    ELSE IF ~db.orders[oid].notify_url THEN db
    ELSE LET cur == db.orders[oid].callback_attempts + 1
             st  == IF ok THEN 1
                    ELSE IF cur >= Len(RETRY_INTERVALS) + 1 THEN 2 ELSE 3
         IN  [orders |-> SetCallback(db.orders, oid, st, cur),
              logs   |-> Append(db.logs, LogRow(oid, cur)),
              last   |-> Post(oid, cur, ok)]

\* retry_notify that never marks the callback failed for good.
RetryNotifyNeverExhausted(db, oid, attempt, ok) ==
    IF attempt < 1 \/ attempt > Len(RETRY_INTERVALS) THEN db
    ELSE IF oid \notin DOMAIN db.orders THEN db
    ELSE IF db.orders[oid].callback_status = 1 THEN db
    ELSE IF ~db.orders[oid].notify_url THEN db
    ELSE LET total == attempt + 1
             st    == IF ok THEN 1 ELSE 3
         IN  [orders |-> SetCallback(db.orders, oid, st, total),
              logs   |-> Append(db.logs, LogRow(oid, total)),
              last   |-> Post(oid, total, ok)]

\* retry_notify leaving the callback in state 3 when the merchant answered
\* "success".
RetryNotifySuccessPending(db, oid, attempt, ok) ==
    IF attempt < 1 \/ attempt > Len(RETRY_INTERVALS) THEN db
    ELSE IF oid \notin DOMAIN db.orders THEN db
    ELSE IF db.orders[oid].callback_status = 1 THEN db
    ELSE IF ~db.orders[oid].notify_url THEN db
    ELSE LET total == attempt + 1
             st    == IF ok THEN 3
                      ELSE IF attempt >= Len(RETRY_INTERVALS) THEN 2 ELSE 3
         IN  [orders |-> SetCallback(db.orders, oid, st, total),
              logs   |-> Append(db.logs, LogRow(oid, total)),
              last   |-> Post(oid, total, ok)]

\* retry_notify(order_id, attempt).
RetryNotify(db, oid, attempt, ok) ==
    IF attempt < 1 \/ attempt > Len(RETRY_INTERVALS) THEN db
    ELSE IF oid \notin DOMAIN db.orders THEN db
    ELSE IF db.orders[oid].callback_status = 1 THEN db
    ELSE IF ~db.orders[oid].notify_url THEN db
    ELSE LET total == attempt + 1
             st    == IF ok THEN 1
                      ELSE IF attempt >= Len(RETRY_INTERVALS) THEN 2 ELSE 3
         IN  [orders |-> SetCallback(db.orders, oid, st, total),
              logs   |-> Append(db.logs, LogRow(oid, total)),
              last   |-> Post(oid, total, ok)]

\* _trigger_callbacks giving up at the first notification that fails.
RECURSIVE TriggerCallbacksUntilFailure(_, _, _)
TriggerCallbacksUntilFailure(db, ids, resp) ==
    IF ids = <<>> THEN db
    ELSE IF ~resp[Head(ids)] THEN SendNotify(db, Head(ids), FALSE)
    ELSE TriggerCallbacksUntilFailure(SendNotify(db, Head(ids), TRUE),
                                      Tail(ids), resp)

\* _trigger_callbacks: send_notify for each matched order, in order.
RECURSIVE TriggerCallbacks(_, _, _)
TriggerCallbacks(db, ids, resp) ==
    IF ids = <<>> THEN db
    ELSE TriggerCallbacks(SendNotify(db, Head(ids), resp[Head(ids)]),
                          Tail(ids), resp)


\* ---- check_payment ---------------------------------------------------------

\* A balance_logs row: match_result and matched_trade_nos.
BLog(result, matched) ==
    [match_result |-> result, matched_trade_nos |-> matched]

\* The outcome of a check_payment call that returns ret before it queries
\* the wallet: nothing is changed.
Unchanged(ret) ==
    [orders |-> orders, merchant_money |-> merchant_money,
     balance_logs |-> balance_logs, callback_logs |-> callback_logs,
     last_notify |-> last_notify, ret |-> ret, matched |-> <<>>,
     queried |-> FALSE]

\* The outcome of a check_payment call that queries the wallet, appends one
\* balance_logs row without a match and returns False.
Logged(result) ==
    [Unchanged(FALSE) EXCEPT
        !.balance_logs = Append(balance_logs, BLog(result, <<>>)),
        !.queried = TRUE]

\* The base_balance of the last of pending_orders instead.
LatestBase(ords, pending_orders) ==
    ords[pending_orders[Len(pending_orders)]].base_balance

\* earliest_base: the base_balance of the first of pending_orders.
EarliestBase(ords, pending_orders) == ords[pending_orders[1]].base_balance

\* check_payment after a successful balance query, going on to the subset
\* search when the balance stands exactly at the baseline.
ReconcileZeroChange(t, current_balance, resp) ==
    LET credential_id == orders[t].credential_id
        all_pending == GetPendingOrders(orders)
    IN
    IF all_pending = <<>> THEN Logged("no pending")
    ELSE
    LET pending_orders == SameCredential(orders, all_pending, credential_id) IN
    IF pending_orders = <<>> THEN Logged("no pending on credential")
    ELSE
    LET diff == current_balance - EarliestBase(orders, pending_orders) IN
    IF diff < 0 THEN Logged("no positive change")
    ELSE
    LET order_cents == [k \in DOMAIN pending_orders |->
                            orders[pending_orders[k]].money]
        matched_indices == SubsetSumDfs(order_cents, diff)
    IN
    IF ~matched_indices.found THEN Logged("no match")
    ELSE
    LET matched_ids == [k \in DOMAIN matched_indices.idx |->
                            pending_orders[matched_indices.idx[k]]]
        marked == MarkOrdersPaid(orders, Range(matched_ids),
                                 current_balance, now)
        db == TriggerCallbacks([orders |-> marked, logs |-> callback_logs,
                                last |-> last_notify], matched_ids, resp)
    IN  [orders |-> db.orders,
         merchant_money |-> CreditMerchants(merchant_money, marked,
                                            Range(matched_ids)),
         balance_logs |-> Append(balance_logs, BLog("matched", matched_ids)),
         callback_logs |-> db.logs,
         last_notify |-> db.last,
         ret |-> t \in Range(matched_ids),
         matched |-> matched_ids,
         queried |-> TRUE]

\* check_payment after a successful balance query.  resp[i]: the merchant
\* answers "success" to the notification of order i.
Reconcile(t, current_balance, resp) ==
    LET credential_id == orders[t].credential_id
        all_pending == GetPendingOrders(orders)
    IN
    IF all_pending = <<>> THEN Logged("no pending")
    ELSE
    LET pending_orders == SameCredential(orders, all_pending, credential_id) IN
    IF pending_orders = <<>> THEN Logged("no pending on credential")
    ELSE
    LET diff == current_balance - EarliestBase(orders, pending_orders) IN
    IF diff <= 0 THEN Logged("no positive change")
    ELSE
    LET order_cents == [k \in DOMAIN pending_orders |->
                            orders[pending_orders[k]].money]
        matched_indices == SubsetSumDfs(order_cents, diff)
    IN
    IF ~matched_indices.found THEN Logged("no match")
    ELSE
    LET matched_ids == [k \in DOMAIN matched_indices.idx |->
                            pending_orders[matched_indices.idx[k]]]
        marked == MarkOrdersPaid(orders, Range(matched_ids),
                                 current_balance, now)
        db == TriggerCallbacks([orders |-> marked, logs |-> callback_logs,
                                last |-> last_notify], matched_ids, resp)
    IN  [orders |-> db.orders,
         merchant_money |-> CreditMerchants(merchant_money, marked,
                                            Range(matched_ids)),
         balance_logs |-> Append(balance_logs, BLog("matched", matched_ids)),
         callback_logs |-> db.logs,
         last_notify |-> db.last,
         ret |-> t \in Range(matched_ids),
         matched |-> matched_ids,
         queried |-> TRUE]

\* check_payment with the failed query's `return False` left out: the failure
\* is logged and the reconciliation goes on with the balance.
CheckPaymentFallThrough(t, qok, resp) ==
    IF t \notin DOMAIN orders THEN Unchanged(FALSE)
    ELSE IF orders[t].status = PAID THEN Unchanged(TRUE)
    ELSE IF orders[t].status # PENDING THEN Unchanged(FALSE)
    ELSE IF ~qok
    THEN LET out == Reconcile(t, wallet[orders[t].credential_id],
                              [i \in DOMAIN orders |-> TRUE])
         IN  [out EXCEPT !.balance_logs =
                    Append(balance_logs, BLog("query failed", <<>>))]
    ELSE Reconcile(t, wallet[orders[t].credential_id], resp)

\* check_payment without the early returns for an order that is PAID or no
\* longer PENDING.
CheckPaymentAnyStatus(t, qok, resp) ==
    IF t \notin DOMAIN orders THEN Unchanged(FALSE)
    ELSE IF ~qok THEN Logged("query failed")
    ELSE Reconcile(t, wallet[orders[t].credential_id], resp)

\* What one call check_payment(t) leaves behind and returns, in the current
\* state.  qok: the wallet's balance query succeeded.
CheckPayment(t, qok, resp) ==
    IF t \notin DOMAIN orders THEN Unchanged(FALSE)
    ELSE IF orders[t].status = PAID THEN Unchanged(TRUE)
    ELSE IF orders[t].status # PENDING THEN Unchanged(FALSE)
    ELSE IF ~qok THEN Logged("query failed")
    ELSE Reconcile(t, wallet[orders[t].credential_id], resp)

\* The tables after a check_payment call with outcome out.
Commit(out) ==
    /\ orders' = out.orders
    /\ merchant_money' = out.merchant_money
    /\ balance_logs' = out.balance_logs
    /\ callback_logs' = out.callback_logs
    /\ last_notify' = out.last_notify

\* The orders check_payment(t) would match if the wallet answers.
Matched(t) == Range(CheckPayment(t, TRUE, [i \in DOMAIN orders |-> TRUE]).matched)

\* The merchants' answers to the notifications of the orders in ids.
Responses(ids) == [ids -> BOOLEAN]

\* ---- order engine: OrderService --------------------------------------------

\* adjust_amount returning the requested amount as it is.
AdjustNone(ords, original) == original

\* adjust_amount: the first of original, original + 0.01, ... (100 candidates)
\* that no PENDING order in [original, original + 0.99] holds; NULL stands
\* for AmountConflictError.
AdjustAmount(ords, original) ==
    LET occupied == {ords[i].money :
                        i \in {j \in DOMAIN ords :
                                 /\ ords[j].status = PENDING
                                 /\ ords[j].money >= original
                                 /\ ords[j].money <= original + (AdjustSteps - 1)}}
        free == {k \in 0..(AdjustSteps - 1) : original + k \notin occupied}
    IN  IF free = {} THEN NULL
        ELSE original + (CHOOSE k \in free : \A j \in free : k <= j)

\* No poller was ever started.
NoPollers == [table |-> <<>>, tasks |-> <<>>]

\* No pure helper has been called.
NoHelper == [fn |-> "none"]

\* No request is being answered.
NoRequest == [act |-> "none"]
\* The return_url "" of a reply.
NoUrl == [trade_no |-> NULL, trade_status |-> "", sign |-> FALSE]

NoReply == [op |-> "none", req |-> NoRequest, code |-> 0, msg |-> "",
            trade_no |-> NULL, money |-> NULL, status |-> NULL,
            return_url |-> NoUrl]

\* A poller task as start_payment_polling creates it: the coroutine
\* _poll_order_payment(trade_no) with its locals start_time and poll_count.
NewTask(t, time) ==
    [trade_no |-> t, start_time |-> time, poll_count |-> 0, state |-> "running"]

\* A poller task that has returned: its locals are gone.
DoneTask(t) ==
    [trade_no |-> t, start_time |-> 0, poll_count |-> 0, state |-> "done"]

\* start_payment_polling on ps = [table, tasks]: a no-op when a task is
\* registered for trade_no; else a task is created and registered.
StartPaymentPolling(ps, t, time) ==
    IF t \in DOMAIN ps.table THEN ps
    ELSE [table |-> [x \in DOMAIN ps.table \cup {t} |->
                        IF x = t THEN Len(ps.tasks) + 1 ELSE ps.table[x]],
          tasks |-> Append(ps.tasks, NewTask(t, time))]

\* _active_tasks.pop(trade_no, None)
PopTask(tasks, t) == [x \in DOMAIN tasks \ {t} |-> tasks[x]]

\* The order row create_order inserts.
NewOrder(m, amount, adjusted, qok, time) ==
    [merchant_id |-> m, credential_id |-> CredentialOf(m),
     original_money |-> amount, money |-> adjusted,
     adjust_amount |-> adjusted - amount, status |-> PENDING,
     base_balance |-> IF qok THEN wallet[CredentialOf(m)] ELSE 0,
     confirm_balance |-> NULL, notify_url |-> NotifyUrlOf(m),
     created_at |-> time, paid_at |-> NULL, expired_at |-> NULL,
     callback_status |-> 0, callback_attempts |-> 0]

\* create_payment after its validation: create_order, then the poller.
CreatePayment(m, amount, qok) ==
    /\ Len(orders) < MaxOrders
    /\ LET adjusted == AdjustAmount(orders, amount)
           ps == StartPaymentPolling([table |-> active_tasks, tasks |-> pollers],
                                     Len(orders) + 1, now)
       IN  /\ adjusted # NULL
           /\ orders' = Append(orders, NewOrder(m, amount, adjusted, qok, now))
           /\ active_tasks' = ps.table
           /\ pollers' = ps.tasks
    /\ UNCHANGED <<merchant_money, wallet, balance_logs, callback_logs, last_notify, now,
                   last_scan, dfs_in, dfs_out, helper, reply>>

\* expire_orders without its status = 0 condition.
ExpireAnyStatus(ords, time) ==
    [i \in DOMAIN ords |->
        IF ords[i].created_at < time - ExpireSeconds
        THEN [ords[i] EXCEPT !.status = EXPIRED, !.expired_at = time]
        ELSE ords[i]]

\* expire_orders without its UPDATE.
ExpireOrdersNothing(ords, time) == ords

\* expire_orders with created_at <= cutoff in place of created_at < cutoff.
ExpireAtCutoff(ords, time) ==
    [i \in DOMAIN ords |->
        IF ords[i].status = PENDING /\ ords[i].created_at <= time - ExpireSeconds
        THEN [ords[i] EXCEPT !.status = EXPIRED, !.expired_at = time]
        ELSE ords[i]]

\* expire_orders
ExpireOrders(ords, time) ==
    [i \in DOMAIN ords |->
        IF ords[i].status = PENDING /\ ords[i].created_at < time - ExpireSeconds
        THEN [ords[i] EXCEPT !.status = EXPIRED, !.expired_at = time]
        ELSE ords[i]]

\* _order_expiry_task, one iteration
ExpireSweep ==
    /\ orders' = ExpireOrders(orders, now)
    /\ UNCHANGED <<merchant_money, wallet, balance_logs, callback_logs, last_notify,
                   active_tasks, now, last_scan, dfs_in, dfs_out, helper, pollers, reply>>

\* ---- payment poller --------------------------------------------------------

\* _expire_order: UPDATE .. SET status = 2 WHERE trade_no = ? AND status = 0
ExpireOrder(ords, t, time) ==
    IF t \in DOMAIN ords /\ ords[t].status = PENDING
    THEN [ords EXCEPT ![t].status = EXPIRED, ![t].expired_at = time]
    ELSE ords

\* The task k returns without its `finally`.
TerminateKeepingEntry(k) ==
    /\ pollers' = [pollers EXCEPT ![k] = DoneTask(pollers[k].trade_no)]
    /\ active_tasks' = active_tasks

\* The task k returns: its `finally` pops whatever is registered under its
\* trade_no.
Terminate(k) ==
    /\ pollers' = [pollers EXCEPT ![k] = DoneTask(pollers[k].trade_no)]
    /\ active_tasks' = PopTask(active_tasks, pollers[k].trade_no)

\* _poll_order_payment, an iteration that finds the 600 s elapsed
PollerTimeout(k) ==
    /\ k \in DOMAIN pollers
    /\ pollers[k].state = "running"
    /\ now - pollers[k].start_time >= PollTimeout
    /\ orders' = ExpireOrder(orders, pollers[k].trade_no, now)
    /\ Terminate(k)
    /\ UNCHANGED <<merchant_money, wallet, balance_logs, callback_logs, last_notify, now,
                   last_scan, dfs_in, dfs_out, helper, reply>>

\* _poll_order_payment, an iteration that finds no order row, or the order
\* no longer PENDING
PollerStop(k) ==
    /\ k \in DOMAIN pollers
    /\ pollers[k].state = "running"
    /\ now - pollers[k].start_time < PollTimeout
    /\ \/ pollers[k].trade_no \notin DOMAIN orders
       \/ /\ pollers[k].trade_no \in DOMAIN orders
          /\ orders[pollers[k].trade_no].status # PENDING
    /\ Terminate(k)
    /\ UNCHANGED <<orders, merchant_money, wallet, balance_logs,
                   callback_logs, last_notify, now, last_scan, dfs_in, dfs_out, helper, reply>>

\* _poll_order_payment calling check_payment without the test of the elapsed
\* time before it.
PollerCheckLate(k, qok, resp) ==
    /\ k \in DOMAIN pollers
    /\ pollers[k].state = "running"
    /\ pollers[k].trade_no \in DOMAIN orders
    /\ orders[pollers[k].trade_no].status = PENDING
    /\ Len(balance_logs) < MaxLogs
    /\ LET out == CheckPayment(pollers[k].trade_no, qok, resp)
       IN  /\ Commit(out)
           /\ IF out.ret
              THEN Terminate(k)
              ELSE /\ pollers' = [pollers EXCEPT
                                    ![k].poll_count = pollers[k].poll_count + 1]
                   /\ active_tasks' = active_tasks
    /\ UNCHANGED <<wallet, now, last_scan, dfs_in, dfs_out, helper, reply>>

\* _poll_order_payment, an iteration that calls check_payment
PollerCheck(k, qok, resp) ==
    /\ k \in DOMAIN pollers
    /\ pollers[k].state = "running"
    /\ now - pollers[k].start_time < PollTimeout
    /\ pollers[k].trade_no \in DOMAIN orders
    /\ orders[pollers[k].trade_no].status = PENDING
    /\ Len(balance_logs) < MaxLogs
    /\ LET out == CheckPayment(pollers[k].trade_no, qok, resp)
       IN  /\ Commit(out)
           /\ IF out.ret
              THEN Terminate(k)
              ELSE /\ pollers' = [pollers EXCEPT
                                    ![k].poll_count = pollers[k].poll_count + 1]
                   /\ active_tasks' = active_tasks
    /\ UNCHANGED <<wallet, now, last_scan, dfs_in, dfs_out, helper, reply>>

\* _poll_order_payment resumed after task.cancel(): CancelledError is raised
\* at its sleep and the `finally` runs; a task cancelled before its first
\* iteration never enters the `try`.
PollerCancelled(k) ==
    /\ k \in DOMAIN pollers
    /\ pollers[k].state = "cancelled"
    /\ pollers' = [pollers EXCEPT ![k] = DoneTask(pollers[k].trade_no)]
    /\ active_tasks' = IF pollers[k].poll_count >= 1
                       THEN PopTask(active_tasks, pollers[k].trade_no)
                       ELSE active_tasks
    /\ UNCHANGED <<orders, merchant_money, wallet, balance_logs,
                   callback_logs, last_notify, now, last_scan, dfs_in, dfs_out, helper, reply>>

\* ---- HTTP surface ----------------------------------------------------------

\* _handle_order_query on a PENDING order: the inline reconciliation
QueryOrder(t, qok, resp) ==
    /\ t \in DOMAIN orders
    /\ orders[t].status = PENDING
    /\ Len(balance_logs) < MaxLogs
    /\ Commit(CheckPayment(t, qok, resp))
    /\ UNCHANGED <<wallet, active_tasks, now, last_scan, dfs_in, dfs_out, helper, pollers, reply>>

\* cancel_payment_polling on ps = [table, tasks]: pops the registered task
\* and cancels it unless it is done.
CancelPaymentPolling(ps, t) ==
    IF t \notin DOMAIN ps.table THEN ps
    ELSE LET k == ps.table[t] IN
         [table |-> PopTask(ps.table, t),
          tasks |-> IF ps.tasks[k].state = "done" THEN ps.tasks
                    ELSE [ps.tasks EXCEPT ![k].state = "cancelled"]]

\* admin cancel_order without its UPDATE of the order.
CancelPollerOnly(t) ==
    /\ t \in DOMAIN orders
    /\ orders[t].status = PENDING
    /\ LET ps == CancelPaymentPolling([table |-> active_tasks, tasks |-> pollers], t)
       IN  /\ active_tasks' = ps.table
           /\ pollers' = ps.tasks
    /\ UNCHANGED <<orders, merchant_money, wallet, balance_logs, callback_logs,
                   last_notify, now, last_scan, dfs_in, dfs_out, helper, reply>>

\* admin cancel_order
CancelOrder(t) ==
    /\ t \in DOMAIN orders
    /\ orders[t].status = PENDING
    /\ orders' = [orders EXCEPT ![t].status = EXPIRED, ![t].expired_at = now]
    /\ LET ps == CancelPaymentPolling([table |-> active_tasks, tasks |-> pollers], t)
       IN  /\ active_tasks' = ps.table
           /\ pollers' = ps.tasks
    /\ UNCHANGED <<merchant_money, wallet, balance_logs, callback_logs, last_notify, now,
                   last_scan, dfs_in, dfs_out, helper, reply>>

\* admin renotify_order: one immediate send_notify
Renotify(t, ok) ==
    /\ t \in DOMAIN orders
    /\ orders[t].status \in {PENDING, PAID}
    /\ orders[t].notify_url
    /\ orders[t].callback_attempts < MaxAttempts
    /\ now <= MaxRenotifyTime
    /\ LET db == SendNotify([orders |-> orders, logs |-> callback_logs,
                              last |-> last_notify], t, ok)
       IN  /\ orders' = db.orders
           /\ callback_logs' = db.logs
           /\ last_notify' = db.last
    /\ UNCHANGED <<merchant_money, wallet, balance_logs, active_tasks, now,
                   last_scan, dfs_in, dfs_out, helper, pollers, reply>>

\* ---- retry scanner: _callback_retry_task -----------------------------------

\* The scanner's SELECT with callback_status = 2 alone.
ScanRowsFailedOnly(ords) ==
    SortByCreated(ords,
        {i \in DOMAIN ords :
            /\ ords[i].callback_status = 2
            /\ ords[i].callback_attempts >= 1
            /\ ords[i].callback_attempts <= Len(RETRY_INTERVALS)
            /\ ords[i].status = PAID
            /\ ords[i].notify_url})

\* The scanner's SELECT without its status = 1.
ScanRowsAnyStatus(ords) ==
    SortByCreated(ords,
        {i \in DOMAIN ords :
            /\ ords[i].callback_status \in {2, 3}
            /\ ords[i].callback_attempts >= 1
            /\ ords[i].callback_attempts <= Len(RETRY_INTERVALS)
            /\ ords[i].notify_url})

\* The scanner's SELECT: PAID orders with a notify_url, callback_status in
\* (2, 3) and 1 <= callback_attempts <= len(retry_intervals), in rowid order.
ScanRows(ords) ==
    SortByCreated(ords,
        {i \in DOMAIN ords :
            /\ ords[i].callback_status \in {2, 3}
            /\ ords[i].callback_attempts >= 1
            /\ ords[i].callback_attempts <= Len(RETRY_INTERVALS)
            /\ ords[i].status = PAID
            /\ ords[i].notify_url})

\* sum(retry_intervals[:n])
TotalWait(n) == SumSeq(SubSeq(RETRY_INTERVALS, 1, n))

\* paid_at or created_at
BaseTime(row) == IF row.paid_at # NULL THEN row.paid_at ELSE row.created_at

\* The scanner's decision with the wait since the previous attempt alone
\* measured from the base time.
RetryDueSingleInterval(row, time) ==
    LET retry_index == row.callback_attempts - 1 IN
    IF retry_index >= Len(RETRY_INTERVALS) THEN 0
    ELSE IF time - BaseTime(row) >= RETRY_INTERVALS[retry_index + 1]
         THEN retry_index + 1
         ELSE 0

\* The scanner's decision for one selected row at time `time`: the attempt
\* argument it passes to retry_notify, or 0 when it passes the row over.
RetryDue(row, time) ==
    LET retry_index == row.callback_attempts - 1 IN
    IF retry_index >= Len(RETRY_INTERVALS) THEN 0
    ELSE IF time - BaseTime(row) >= TotalWait(retry_index + 1)
         THEN retry_index + 1
         ELSE 0

\* The scanner's `for row in rows` loop; snap is the table as selected.
RECURSIVE ScanLoop(_, _, _, _, _)
ScanLoop(db, rows, snap, time, resp) ==
    IF rows = <<>> THEN db
    ELSE LET oid == Head(rows)
             attempt == RetryDue(snap[oid], time)
         IN  ScanLoop(IF attempt = 0 THEN db
                      ELSE RetryNotify(db, oid, attempt, resp[oid]),
                      Tail(rows), snap, time, resp)

\* The orders a scan at the current time retries.
DueRows == {i \in Range(ScanRows(orders)) : RetryDue(orders[i], now) # 0}

\* One iteration of _callback_retry_task, ScanSleep after the previous one.
RetryScan(resp) ==
    /\ now - last_scan >= ScanSleep
    /\ LET db == ScanLoop([orders |-> orders, logs |-> callback_logs,
                            last |-> last_notify],
                          ScanRows(orders), orders, now, resp)
       IN  /\ orders' = db.orders
           /\ callback_logs' = db.logs
           /\ last_notify' = db.last
    /\ last_scan' = now
    /\ UNCHANGED <<merchant_money, wallet, balance_logs, active_tasks, now,
                   dfs_in, dfs_out, helper, pollers, reply>>

\* ---- HTTP endpoints with their answers --------------------------------------

\* Table merchants: the merchants in Merchants are active, one more is
\* banned (active = 0), and no row has the id after that.
BannedMerchant == NumMerchants + 1
UnknownMerchant == NumMerchants + 2
Pids == Merchants \cup {BannedMerchant, UnknownMerchant}

\* The form a client posts to create_payment: whether every parameter of
\* REQUIRED_PARAMS is there, whether pid is a number, the pid, whether the
\* sign is the MD5 that verify_sign computes, whether money parses as a
\* decimal, the money, and whether the wallet answers the balance query.
CreateRequests ==
    [fields_ok : BOOLEAN, pid_int : BOOLEAN, pid : Pids, sign_ok : BOOLEAN,
     money_ok : BOOLEAN, money : 1..MaxRequest, qok : BOOLEAN]

\* JSONResponse({"code": -1, "msg": msg}) to the request req of endpoint op
Fault(op, req, msg) ==
    [NoReply EXCEPT !.op = op, !.req = req, !.code = -1, !.msg = msg]

\* create_payment verifying the signature before it looks the merchant up.
CreateFaultSignFirst(req, ords) ==
    IF ~req.fields_ok THEN Fault("create", req, "missing params")
    ELSE IF ~req.sign_ok THEN Fault("create", req, "sign error")
    ELSE IF ~req.pid_int THEN Fault("create", req, "pid invalid")
    ELSE IF req.pid = UnknownMerchant THEN Fault("create", req, "no merchant")
    ELSE IF req.pid = BannedMerchant THEN Fault("create", req, "merchant banned")
    ELSE IF ~req.money_ok THEN Fault("create", req, "money invalid")
    ELSE IF AdjustAmount(ords, req.money) = NULL THEN Fault("create", req, "busy")
    ELSE NoReply

\* create_payment's answer to a request that its checks, or create_order's,
\* turn down; NoReply for a request that passes them all.
CreateFault(req, ords) ==
    IF ~req.fields_ok THEN Fault("create", req, "missing params")
    ELSE IF ~req.pid_int THEN Fault("create", req, "pid invalid")
    ELSE IF req.pid = UnknownMerchant THEN Fault("create", req, "no merchant")
    ELSE IF req.pid = BannedMerchant THEN Fault("create", req, "merchant banned")
    ELSE IF ~req.sign_ok THEN Fault("create", req, "sign error")
    ELSE IF ~req.money_ok THEN Fault("create", req, "money invalid")
    ELSE IF AdjustAmount(ords, req.money) = NULL THEN Fault("create", req, "busy")
    ELSE NoReply

\* create_payment, the whole handler
CreateEndpoint(req) ==
    /\ LET fault == CreateFault(req, orders) IN
       IF fault # NoReply
       THEN /\ reply' = fault
            /\ UNCHANGED <<orders, active_tasks, pollers>>
       ELSE LET adjusted == AdjustAmount(orders, req.money)
                t == Len(orders) + 1
                ps == StartPaymentPolling([table |-> active_tasks,
                                           tasks |-> pollers], t, now)
            IN  /\ orders' = Append(orders,
                        NewOrder(req.pid, req.money, adjusted, req.qok, now))
                /\ active_tasks' = ps.table
                /\ pollers' = ps.tasks
                /\ reply' = [NoReply EXCEPT !.op = "create", !.req = req,
                                            !.code = 1, !.trade_no = t,
                                            !.money = adjusted]
    /\ UNCHANGED <<merchant_money, wallet, balance_logs, callback_logs, last_notify, now,
                   last_scan, dfs_in, dfs_out, helper>>

\* The query string of act=order: whether pid and key are there, whether pid
\* is a number, the pid, whether key is the merchant's, the trade_no (NULL
\* when neither trade_no nor out_trade_no is passed), and whether the wallet
\* answers the balance query.
QueryRequests ==
    [params_ok : BOOLEAN, pid_int : BOOLEAN, pid : Pids, key_ok : BOOLEAN,
     trade_no : {NULL} \cup 1..(MaxOrders + 1), qok : BOOLEAN]

\* _validate_merchant's and _handle_order_query's answer to a request they
\* turn down; NoReply for a request that finds its order.
QueryFault(req, ords) ==
    IF ~req.params_ok THEN Fault("order", req, "missing pid or key")
    ELSE IF ~req.pid_int THEN Fault("order", req, "pid invalid")
    ELSE IF req.pid = UnknownMerchant THEN Fault("order", req, "no merchant")
    ELSE IF ~req.key_ok THEN Fault("order", req, "key error")
    ELSE IF req.trade_no = NULL THEN Fault("order", req, "missing trade_no")
    ELSE IF \/ req.trade_no \notin DOMAIN ords
            \/ /\ req.trade_no \in DOMAIN ords
               /\ ords[req.trade_no].merchant_id # req.pid
         THEN Fault("order", req, "no order")
    ELSE NoReply

\* The answer of act=order built from the status of the row as it was read,
\* before check_payment.
OrderReplyStored(req, row, status) ==
    [NoReply EXCEPT !.op = "order", !.req = req, !.code = 1, !.msg = "success",
                    !.trade_no = req.trade_no, !.money = row.money,
                    !.status = IF row.status = PAID THEN 1 ELSE 0]

\* The answer of act=order to req for its order, read as row, with status.
OrderReply(req, row, status) ==
    [NoReply EXCEPT !.op = "order", !.req = req, !.code = 1, !.msg = "success",
                    !.trade_no = req.trade_no, !.money = row.money,
                    !.status = IF status = PAID THEN 1 ELSE 0]

\* query_api with act=order, the whole handler
QueryEndpoint(req, resp) ==
    LET fault == QueryFault(req, orders)
        t == req.trade_no
    IN  IF fault # NoReply
        THEN /\ reply' = fault
             /\ UNCHANGED <<orders, merchant_money, wallet, balance_logs,
                            callback_logs, last_notify, active_tasks, pollers,
                            now, last_scan, dfs_in, dfs_out, helper>>
        ELSE IF orders[t].status = PENDING
        THEN /\ Len(balance_logs) < MaxLogs
             /\ LET out == CheckPayment(t, req.qok, resp)
                IN  /\ Commit(out)
                    /\ reply' = OrderReply(req, orders[t],
                                           IF out.ret THEN PAID ELSE PENDING)
             /\ UNCHANGED <<wallet, active_tasks, pollers, now, last_scan,
                            dfs_in, dfs_out, helper>>
        ELSE /\ reply' = OrderReply(req, orders[t], orders[t].status)
             /\ UNCHANGED <<orders, merchant_money, wallet, balance_logs,
                            callback_logs, last_notify, active_tasks, pollers,
                            now, last_scan, dfs_in, dfs_out, helper>>

\* The orders that the check_payment of the request req would match.
QueryMatched(req) ==
    IF /\ QueryFault(req, orders) = NoReply
       /\ orders[req.trade_no].status = PENDING
       /\ req.qok
    THEN Matched(req.trade_no) ELSE {}

\* The answer goes out to the client.
Respond ==
    /\ reply # NoReply
    /\ reply' = NoReply
    /\ UNCHANGED <<orders, merchant_money, wallet, balance_logs, callback_logs,
                   last_notify, active_tasks, pollers, now, last_scan, dfs_in, dfs_out, helper>>

\* get_order_status running check_payment on a PENDING order before it
\* answers.
StatusEndpointChecking(t) ==
    IF t \in DOMAIN orders /\ orders[t].status = PENDING
    THEN /\ Len(balance_logs) < MaxLogs
         /\ LET out == CheckPayment(t, TRUE, [i \in DOMAIN orders |-> TRUE])
            IN  /\ Commit(out)
                /\ reply' = [NoReply EXCEPT !.op = "status", !.req = t, !.code = 1,
                                            !.trade_no = t,
                                            !.status = out.orders[t].status]
         /\ UNCHANGED <<wallet, active_tasks, pollers, now, last_scan, dfs_in, dfs_out, helper>>
    ELSE /\ reply' = IF t \in DOMAIN orders
                     THEN [NoReply EXCEPT !.op = "status", !.req = t, !.code = 1,
                                          !.trade_no = t,
                                          !.status = orders[t].status]
                     ELSE Fault("status", t, "no order")
         /\ UNCHANGED <<orders, merchant_money, wallet, balance_logs, callback_logs,
                        last_notify, active_tasks, pollers, now, last_scan,
                        dfs_in, dfs_out, helper>>

\* get_order_status
StatusEndpoint(t) ==
    /\ reply' = IF t \in DOMAIN orders
                THEN [NoReply EXCEPT !.op = "status", !.req = t, !.code = 1,
                                     !.trade_no = t, !.status = orders[t].status]
                ELSE Fault("status", t, "no order")
    /\ UNCHANGED <<orders, merchant_money, wallet, balance_logs, callback_logs,
                   last_notify, active_tasks, pollers, now, last_scan, dfs_in, dfs_out, helper>>

\* ---- environment -----------------------------------------------------------

\* The operator wallet's available balance moves: a buyer pays d, or the
\* operator spends.
WalletChange(c, d) ==
    /\ wallet[c] + d >= 0
    /\ wallet[c] + d <= MaxBalance
    /\ wallet' = [wallet EXCEPT ![c] = wallet[c] + d]
    /\ UNCHANGED <<orders, merchant_money, balance_logs, callback_logs, last_notify,
                   active_tasks, now, last_scan, dfs_in, dfs_out, helper, pollers, reply>>

Tick(d, limit) ==
    /\ now + d <= limit
    /\ now' = now + d
    /\ UNCHANGED <<orders, merchant_money, wallet, balance_logs,
                   callback_logs, last_notify, active_tasks, last_scan,
                   dfs_in, dfs_out, helper, pollers, reply>>

\* A poller sleeps 1 s and the scanner 30 s between iterations: the clock
\* does not pass a poller's timeout or a due scan before that iteration ran.
NothingOverdue ==
    /\ \A k \in DOMAIN pollers :
            pollers[k].state = "running" =>
                now - pollers[k].start_time < PollTimeout
    /\ now - last_scan < ScanSleep

\* The scanner's clock: one sleep of the scanner at a time.
TickScan == NothingOverdue /\ Tick(ScanSleep, MaxCbNow)

\* ---- the order engine with the reconciler, at one instant ------------------

Init ==
    /\ orders = <<>>
    /\ merchant_money = [m \in Merchants |-> 0]
    /\ wallet = [c \in Merchants |-> 1]
    /\ balance_logs = <<>>
    /\ callback_logs = <<>>
    /\ last_notify = NoPost
    /\ active_tasks = <<>>
    /\ pollers = <<>>
    /\ reply = NoReply
    /\ now = 0
    /\ last_scan = 0
    /\ dfs_in = NoCall
    /\ dfs_out = NoResult
    /\ helper = NoHelper

Next ==
    \/ \E m \in Merchants, a \in 1..MaxRequest, qok \in BOOLEAN :
            CreatePayment(m, a, qok)
    \/ \E k \in DOMAIN pollers : PollerStop(k)
    \/ \E k \in DOMAIN pollers, qok \in BOOLEAN :
            \E resp \in Responses(IF qok THEN Matched(pollers[k].trade_no) ELSE {}) :
                PollerCheck(k, qok, resp)
    \/ \E t \in DOMAIN orders, qok \in BOOLEAN :
            \E resp \in Responses(IF qok THEN Matched(t) ELSE {}) :
                QueryOrder(t, qok, resp)
    \/ \E t \in DOMAIN orders : CancelOrder(t)
    \/ \E k \in DOMAIN pollers : PollerCancelled(k)
    \/ \E c \in Merchants, d \in 1..MaxPay : WalletChange(c, d)

Spec == Init /\ [][Next]_vars

\* The order engine and the reconciler on the orders of merchant 1.
NextOne ==
    \/ \E qok \in BOOLEAN : CreatePayment(1, 1, qok)
    \/ \E k \in DOMAIN pollers : PollerStop(k)
    \/ \E k \in DOMAIN pollers, qok \in BOOLEAN :
            \E resp \in Responses(IF qok THEN Matched(pollers[k].trade_no) ELSE {}) :
                PollerCheck(k, qok, resp)
    \/ \E t \in DOMAIN orders, qok \in BOOLEAN :
            \E resp \in Responses(IF qok THEN Matched(t) ELSE {}) :
                QueryOrder(t, qok, resp)
    \/ \E t \in DOMAIN orders : CancelOrder(t)
    \/ \E k \in DOMAIN pollers : PollerCancelled(k)
    \/ \E d \in 1..MaxPay : WalletChange(1, d)

\* task.cancel() schedules the task's wake-up with CancelledError for the
\* event loop's next iteration: a cancelled task is resumed.
SpecFair ==
    /\ Init /\ [][NextOne]_vars
    /\ WF_vars(\E k \in DOMAIN pollers : PollerCancelled(k))

\* ---- one credential over time: pollers' timeouts and the expiry sweep ------

NextTimed ==
    \/ \E a \in 1..MaxRequest, qok \in BOOLEAN : CreatePayment(1, a, qok)
    \/ \E k \in DOMAIN pollers : PollerTimeout(k)
    \/ \E k \in DOMAIN pollers : PollerStop(k)
    \/ \E k \in DOMAIN pollers, qok \in BOOLEAN :
            \E resp \in Responses(IF qok THEN Matched(pollers[k].trade_no) ELSE {}) :
                PollerCheck(k, qok, resp)
    \/ \E t \in DOMAIN orders, qok \in BOOLEAN :
            \E resp \in Responses(IF qok THEN Matched(t) ELSE {}) :
                QueryOrder(t, qok, resp)
    \/ \E t \in DOMAIN orders : CancelOrder(t)
    \/ \E k \in DOMAIN pollers : PollerCancelled(k)
    \/ ExpireSweep
    \/ WalletChange(1, 1)
    \/ Tick(ExpireSeconds, MaxNow)

SpecTimed == Init /\ [][NextTimed]_vars

\* ---- one order and the callback engine -------------------------------------

\* The buyer of order t pays its money, at most MaxPayTime after the start.
BuyerPays(t) ==
    /\ t \in DOMAIN orders
    /\ now <= MaxPayTime
    /\ WalletChange(orders[t].credential_id, orders[t].money)

\* The state after one create_payment of merchant m at time 0, the wallets
\* holding MaxBalance - 1.
InitCb ==
    /\ \E m \in Merchants :
        orders = <<[merchant_id |-> m, credential_id |-> CredentialOf(m),
                    original_money |-> 1, money |-> 1, adjust_amount |-> 0,
                    status |-> PENDING, base_balance |-> MaxBalance - 1,
                    confirm_balance |-> NULL, notify_url |-> NotifyUrlOf(m),
                    created_at |-> 0, paid_at |-> NULL, expired_at |-> NULL,
                    callback_status |-> 0, callback_attempts |-> 0]>>
    /\ merchant_money = [m \in Merchants |-> 0]
    /\ wallet = [c \in Merchants |-> MaxBalance - 1]
    /\ balance_logs = <<>>
    /\ callback_logs = <<>>
    /\ last_notify = NoPost
    /\ active_tasks = StartPaymentPolling(NoPollers, 1, 0).table
    /\ pollers = StartPaymentPolling(NoPollers, 1, 0).tasks
    /\ reply = NoReply
    /\ now = 0
    /\ last_scan = 0
    /\ dfs_in = NoCall
    /\ dfs_out = NoResult
    /\ helper = NoHelper

NextCb ==
    \/ \E k \in DOMAIN pollers : PollerTimeout(k)
    \/ \E k \in DOMAIN pollers, qok \in BOOLEAN :
            \E resp \in Responses(IF qok THEN Matched(pollers[k].trade_no) ELSE {}) :
                now <= MaxPayTime /\ PollerCheck(k, qok, resp)
    \/ \E t \in DOMAIN orders, ok \in BOOLEAN : Renotify(t, ok)
    \/ \E resp \in Responses(DueRows) : RetryScan(resp)
    \/ BuyerPays(1)
    \/ TickScan

SpecCb == InitCb /\ [][NextCb]_vars

\* The scanner and the pollers are tasks of the event loop that run for as
\* long as the application does: each of their iterations, once due, is taken,
\* and the clock goes on.
SpecCbFair ==
    /\ SpecCb
    /\ WF_vars(TickScan)
    /\ WF_vars(\E resp \in Responses(DueRows) : RetryScan(resp))
    /\ WF_vars(\E k \in DOMAIN pollers : PollerTimeout(k))

\* ---- _subset_sum_dfs on its own ---------------------------------------------

\* The sequences over S of length at most n.
SeqsUpTo(S, n) == UNION {[1..k -> S] : k \in 0..n}

InitDfs ==
    /\ orders = <<>>
    /\ merchant_money = [m \in Merchants |-> 0]
    /\ wallet = [c \in Merchants |-> 1]
    /\ balance_logs = <<>>
    /\ callback_logs = <<>>
    /\ last_notify = NoPost
    /\ active_tasks = <<>>
    /\ pollers = <<>>
    /\ reply = NoReply
    /\ now = 0
    /\ last_scan = 0
    /\ \E a \in SeqsUpTo(1..MaxAmount, MaxLen), t \in 1..MaxTarget :
            dfs_in = [amounts |-> a, target |-> t, called |-> FALSE]
    /\ dfs_out = NoResult
    /\ helper = NoHelper

\* check_payment's call matched_indices = _subset_sum_dfs(order_cents, diff_cents)
SubsetSumCall ==
    /\ ~dfs_in.called
    /\ dfs_in' = [dfs_in EXCEPT !.called = TRUE]
    /\ dfs_out' = SubsetSumDfs(dfs_in.amounts, dfs_in.target)
    /\ UNCHANGED <<orders, merchant_money, wallet, balance_logs,
                   callback_logs, last_notify, active_tasks, pollers, reply,
                   now, last_scan, helper>>

SpecDfs == InitDfs /\ [][SubsetSumCall]_vars

\* ---- the merchants' and the buyers' endpoints --------------------------------

\* One request at a time, as on the event loop: a handler runs after the
\* answer of the one before went out.  The wallet answers the balance query
\* of every create_order here.
NextApi ==
    \/ \E req \in CreateRequests :
            /\ reply = NoReply
            /\ req.qok
            /\ Len(orders) < MaxOrders
            /\ CreateEndpoint(req)
    \/ \E req \in QueryRequests :
            /\ reply = NoReply
            /\ \E resp \in Responses(QueryMatched(req)) : QueryEndpoint(req, resp)
    \/ \E t \in 1..(MaxOrders + 1) : reply = NoReply /\ StatusEndpoint(t)
    \/ \E t \in DOMAIN orders : reply = NoReply /\ CancelOrder(t)
    \/ reply = NoReply /\ WalletChange(1, 1)
    \/ Respond

SpecApi == Init /\ [][NextApi]_vars

\* ---- create_payment on a full amount ladder ---------------------------------

\* The kinds of order that may sit on one step of the ladder.
SlotKinds == {"pending", "other credential", "cancelled", "absent"}

\* The order that create_payment stored for merchant m on step k of the
\* ladder of MaxRequest, at time 0.
LadderOrder(m, k) ==
    [merchant_id |-> m, credential_id |-> CredentialOf(m),
     original_money |-> MaxRequest, money |-> MaxRequest + k,
     adjust_amount |-> k, status |-> PENDING, base_balance |-> 1,
     confirm_balance |-> NULL, notify_url |-> NotifyUrlOf(m),
     created_at |-> 0, paid_at |-> NULL, expired_at |-> NULL,
     callback_status |-> 0, callback_attempts |-> 0]

\* The state after 100 create_payment requests for MaxRequest at time 0:
\* 99 of merchant 1, and one, on step h, that is merchant 1's or merchant
\* 2's, or merchant 1's and since cancelled by the admin, or that was
\* turned down.
InitAdjust ==
    /\ \E h \in 0..(AdjustSteps - 1), kind \in SlotKinds :
        LET n == IF kind = "absent" THEN AdjustSteps - 1 ELSE AdjustSteps
            step(i) == IF kind = "absent" /\ i > h THEN i ELSE i - 1
            row(i) ==
                IF step(i) # h THEN LadderOrder(1, step(i))
                ELSE IF kind = "other credential" THEN LadderOrder(2, h)
                ELSE IF kind = "cancelled"
                     THEN [LadderOrder(1, h) EXCEPT !.status = EXPIRED,
                                                    !.expired_at = 0]
                ELSE LadderOrder(1, h)
        IN  /\ orders = [i \in 1..n |-> row(i)]
            /\ pollers = [i \in 1..n |->
                            IF orders[i].status = PENDING THEN NewTask(i, 0)
                            ELSE [NewTask(i, 0) EXCEPT !.state = "cancelled"]]
            /\ active_tasks = [i \in {j \in 1..n : orders[j].status = PENDING}
                                    |-> i]
    /\ merchant_money = [m \in Merchants |-> 0]
    /\ wallet = [c \in Merchants |-> 1]
    /\ balance_logs = <<>>
    /\ callback_logs = <<>>
    /\ last_notify = NoPost
    /\ reply = NoReply
    /\ now = 0
    /\ last_scan = 0
    /\ dfs_in = NoCall
    /\ dfs_out = NoResult
    /\ helper = NoHelper

NextAdjust ==
    \/ \E req \in CreateRequests :
            /\ reply = NoReply
            /\ Len(orders) <= AdjustSteps
            /\ CreateEndpoint(req)
    \/ Respond

SpecAdjust == InitAdjust /\ [][NextAdjust]_vars

\* ---- the poller module called directly --------------------------------------

\* start_payment_polling(t), for any trade_no, by any caller
StartPolling(t) ==
    /\ Len(pollers) < MaxTasks
    /\ LET ps == StartPaymentPolling([table |-> active_tasks, tasks |-> pollers],
                                     t, now)
       IN  /\ active_tasks' = ps.table
           /\ pollers' = ps.tasks
    /\ UNCHANGED <<orders, merchant_money, wallet, balance_logs, callback_logs,
                   last_notify, reply, now, last_scan, dfs_in, dfs_out, helper>>

\* cancel_payment_polling(t), for any trade_no, by any caller
CancelPolling(t) ==
    /\ LET ps == CancelPaymentPolling([table |-> active_tasks, tasks |-> pollers], t)
       IN  /\ active_tasks' = ps.table
           /\ pollers' = ps.tasks
    /\ UNCHANGED <<orders, merchant_money, wallet, balance_logs, callback_logs,
                   last_notify, reply, now, last_scan, dfs_in, dfs_out, helper>>

\* The module's entry points and the tasks' own steps, over the orders of
\* merchant 1 and a trade_no that has no order.
NextPoller ==
    \/ CreatePayment(1, 1, TRUE)
    \/ \E t \in DOMAIN orders \cup {MaxOrders + 1} : StartPolling(t)
    \/ \E t \in DOMAIN orders \cup {MaxOrders + 1} : CancelPolling(t)
    \/ \E k \in DOMAIN pollers : PollerStop(k)
    \/ \E k \in DOMAIN pollers, qok \in BOOLEAN :
            /\ pollers[k].trade_no \in DOMAIN orders
            /\ \E resp \in Responses(IF qok THEN Matched(pollers[k].trade_no)
                                     ELSE {}) :
                    PollerCheck(k, qok, resp)
    \/ \E k \in DOMAIN pollers : PollerCancelled(k)
    \/ \E k \in DOMAIN pollers : PollerTimeout(k)
    \/ Tick(PollTimeout, PollTimeout)

SpecPoller == Init /\ [][NextPoller]_vars

\* ---- build_return_url on its own --------------------------------------------

\* The keys of the query q in the order of their first occurrence: the key
\* order of the dict parse_qs builds.
RECURSIVE QueryKeys(_)
QueryKeys(q) ==
    IF q = <<>> THEN <<>>
    ELSE LET front == QueryKeys(SubSeq(q, 1, Len(q) - 1))
             k == q[Len(q)].key
         IN  IF k \in Range(front) THEN front ELSE Append(front, k)

\* parse_qs(query, keep_blank_values=True)[k]: the values of key k in q, in
\* their order.
QueryValues(q, k) ==
    LET hits == SelectSeq(q, LAMBDA p : p.key = k)
    IN  [i \in DOMAIN hits |-> hits[i].value]

\* The signed notify parameters of an order, by key (the keys trade_no,
\* trade_status and sign stand for all ten).
SignedKeys == <<"trade_no", "trade_status", "sign">>
SignedParams ==
    [k \in Range(SignedKeys) |->
        IF k = "trade_no" THEN "20260101" ELSE IF k = "trade_status"
        THEN "TRADE_SUCCESS" ELSE "md5"]

\* build_return_url for an order whose return_url has the query q: the
\* query of the result, as urlencode(merged) lists it.  flat_existing keeps
\* the first value of every key; merged keeps the existing keys in place,
\* with the notify value where the key is a notify key, and appends the
\* other notify keys.
BuildReturnUrl(q) ==
    LET keys == QueryKeys(q)
        flat_existing == [k \in Range(keys) |-> QueryValues(q, k)[1]]
        added == SelectSeq(SignedKeys, LAMBDA k : k \notin Range(keys))
        merged_keys == keys \o added
    IN  [i \in DOMAIN merged_keys |->
            [key |-> merged_keys[i],
             value |-> IF merged_keys[i] \in Range(SignedKeys)
                       THEN SignedParams[merged_keys[i]]
                       ELSE flat_existing[merged_keys[i]]]]

\* The queries of at most MaxPairs parameters that a return_url may carry:
\* a key of the merchant's, or one that the notify parameters use as well,
\* with a value that may be blank.
ReturnQueries ==
    SeqsUpTo([key : {"ref", "trade_no"}, value : {"", "x", "y"}], MaxPairs)

InitUrl ==
    /\ orders = <<>>
    /\ merchant_money = [m \in Merchants |-> 0]
    /\ wallet = [c \in Merchants |-> 1]
    /\ balance_logs = <<>>
    /\ callback_logs = <<>>
    /\ last_notify = NoPost
    /\ active_tasks = <<>>
    /\ pollers = <<>>
    /\ reply = NoReply
    /\ now = 0
    /\ last_scan = 0
    /\ dfs_in = NoCall
    /\ dfs_out = NoResult
    /\ \E q \in ReturnQueries :
            helper = [fn |-> "build_return_url", query |-> q,
                      called |-> FALSE, result |-> <<>>]

\* build_return_url(order_id) for an order with a return_url
BuildReturnUrlCall ==
    /\ helper.fn = "build_return_url"
    /\ ~helper.called
    /\ helper' = [helper EXCEPT !.called = TRUE,
                                !.result = BuildReturnUrl(helper.query)]
    /\ UNCHANGED <<orders, merchant_money, wallet, balance_logs,
                   callback_logs, last_notify, active_tasks, pollers, reply,
                   now, last_scan, dfs_in, dfs_out>>

SpecUrl == InitUrl /\ [][BuildReturnUrlCall]_vars

\* ---- generate_sign and verify_sign on their own -----------------------------

\* ord() of a one-letter parameter name.
Ord(k) == IF k = "a" THEN 97 ELSE IF k = "b" THEN 98 ELSE 99

\* sorted(keys): the names in S by ascending code.
RECURSIVE Sorted(_)
Sorted(S) ==
    IF S = {} THEN <<>>
    ELSE LET k == CHOOSE x \in S : \A y \in S : Ord(x) <= Ord(y)
         IN  <<k>> \o Sorted(S \ {k})

\* hashlib.md5(..).hexdigest() as a digest without collisions.
Md5(str) == [md5 |-> str]

\* The value of key k in the dict params, a sequence of items with distinct
\* keys in insertion order.
Item(params, k) ==
    (CHOOSE i \in DOMAIN params : params[i].key = k)

\* generate_sign with the parameters joined in the order of the dict.
GenerateSignUnsorted(params, key) ==
    LET filtered == SelectSeq(params, LAMBDA p :
                        p.key \notin {"sign", "sign_type"} /\ p.value # "")
    IN  Md5([query_string |-> [i \in DOMAIN filtered |->
                                  <<filtered[i].key, filtered[i].value>>],
             key |-> key])

\* generate_sign: the items other than sign and sign_type whose value is not
\* empty, sorted by name, joined as k=v with & and followed by the key, in
\* MD5.  The joined string is kept as the list of its k=v parts.
GenerateSign(params, key) ==
    LET filtered == SelectSeq(params, LAMBDA p :
                        p.key \notin {"sign", "sign_type"} /\ p.value # "")
        sorted_keys == Sorted({filtered[i].key : i \in DOMAIN filtered})
    IN  Md5([query_string |-> [i \in DOMAIN sorted_keys |->
                                  <<sorted_keys[i],
                                    filtered[Item(filtered, sorted_keys[i])].value>>],
             key |-> key])

\* verify_sign
VerifySign(params, key, sign) == GenerateSign(params, key) = sign

\* The items of seq in reverse order.
Reverse(seq) == [i \in DOMAIN seq |-> seq[Len(seq) + 1 - i]]

\* The dict params as a client sends it after signing: with sign, sign_type
\* or a parameter of empty value added, as extras says, and its items listed
\* in the opposite order if reversed.
Sent(params, sign, extras, reversed) ==
    LET with == params
                \o (IF "sign" \in extras
                    THEN <<[key |-> "sign", value |-> sign]>> ELSE <<>>)
                \o (IF "sign_type" \in extras
                    THEN <<[key |-> "sign_type", value |-> "MD5"]>> ELSE <<>>)
                \o (IF "blank" \in extras
                    THEN <<[key |-> "c", value |-> ""]>> ELSE <<>>)
    IN  IF reversed THEN Reverse(with) ELSE with

\* The non-empty dicts over the names a and b, with values that may be empty.
SignedDicts ==
    {p \in SeqsUpTo([key : {"a", "b"}, value : {"", "1", "2"}], MaxDict) :
        /\ p # <<>>
        /\ \A i, j \in DOMAIN p : i # j => p[i].key # p[j].key}

InitSign ==
    /\ orders = <<>>
    /\ merchant_money = [m \in Merchants |-> 0]
    /\ wallet = [c \in Merchants |-> 1]
    /\ balance_logs = <<>>
    /\ callback_logs = <<>>
    /\ last_notify = NoPost
    /\ active_tasks = <<>>
    /\ pollers = <<>>
    /\ reply = NoReply
    /\ now = 0
    /\ last_scan = 0
    /\ dfs_in = NoCall
    /\ dfs_out = NoResult
    /\ \E p \in SignedDicts, k \in {"key1", "key2"},
          extras \in SUBSET {"sign", "sign_type", "blank"}, reversed \in BOOLEAN :
            helper = [fn |-> "verify_sign", params |-> p, key |-> k,
                      extras |-> extras, reversed |-> reversed,
                      called |-> FALSE, result |-> FALSE]

\* sign = generate_sign(p, k), then verify_sign(p as sent, k, sign)
SignCall ==
    /\ helper.fn = "verify_sign"
    /\ ~helper.called
    /\ LET sign == GenerateSign(helper.params, helper.key)
       IN  helper' = [helper EXCEPT
                !.called = TRUE,
                !.result = VerifySign(Sent(helper.params, sign, helper.extras,
                                           helper.reversed),
                                      helper.key, sign)]
    /\ UNCHANGED <<orders, merchant_money, wallet, balance_logs,
                   callback_logs, last_notify, active_tasks, pollers, reply,
                   now, last_scan, dfs_in, dfs_out>>

SpecSign == InitSign /\ [][SignCall]_vars

\* ---- the pay page and the signed success parameters -------------------------

\* build_return_url: the order's return_url carrying the notify parameters of
\* the order, trade_status = TRADE_SUCCESS among them, signed with the
\* merchant's key; "" for an order without return_url.
SignedReturnUrl(ords, t) ==
    IF ReturnUrlOf(ords[t].merchant_id)
    THEN [trade_no |-> t, trade_status |-> "TRADE_SUCCESS", sign |-> TRUE]
    ELSE NoUrl

\* pay_page: GET /v1/pay/{trade_no}, public.
PayPage(t) ==
    /\ reply' = IF t \in DOMAIN orders
                THEN [NoReply EXCEPT !.op = "pay_page", !.req = t, !.code = 1,
                                     !.trade_no = t, !.money = orders[t].money,
                                     !.status = orders[t].status,
                                     !.return_url = SignedReturnUrl(orders, t)]
                ELSE Fault("pay_page", t, "no order")
    /\ UNCHANGED <<orders, merchant_money, wallet, balance_logs, callback_logs,
                   last_notify, active_tasks, pollers, now, last_scan, dfs_in,
                   dfs_out, helper>>

\* One order, its poller, the callback engine, the admin's renotify and the
\* pay page.
NextPage ==
    \/ reply = NoReply /\ NextCb
    \/ reply = NoReply /\ \E t \in 1..MaxOrders : PayPage(t)
    \/ Respond

SpecPage == InitCb /\ [][NextPage]_vars

\* ---- check_payment with a failing database write ----------------------------

\* The writes of a match that can raise: _mark_orders_paid's transaction
\* ("mark"; nothing of it is committed) and _log_balance_query's insert
\* ("log"; _mark_orders_paid has committed before).
Failures == {"mark", "log"}

\* check_payment(t) after a successful balance query, the write `fail` of
\* its match raising: the exception leaves check_payment at that line, with
\* what was committed before it.  A call that matches nothing is as
\* Reconcile has it.
ReconcileFailing(t, current_balance, resp, fail) ==
    LET out == Reconcile(t, current_balance, resp) IN
    IF out.matched = <<>> THEN out
    ELSE IF fail = "mark" THEN [Unchanged(FALSE) EXCEPT !.queried = TRUE]
    ELSE LET marked == MarkOrdersPaid(orders, Range(out.matched),
                                      current_balance, now)
         IN  [Unchanged(FALSE) EXCEPT
                !.orders = marked,
                !.merchant_money = CreditMerchants(merchant_money, marked,
                                                   Range(out.matched)),
                !.matched = out.matched,
                !.queried = TRUE]

\* _poll_order_payment, an iteration whose check_payment call raises: the
\* loop's `except Exception` logs it and the poller sleeps.
PollerCheckFailing(k, resp, fail) ==
    /\ k \in DOMAIN pollers
    /\ pollers[k].state = "running"
    /\ now - pollers[k].start_time < PollTimeout
    /\ pollers[k].trade_no \in DOMAIN orders
    /\ orders[pollers[k].trade_no].status = PENDING
    /\ pollers[k].poll_count < MaxLogs
    /\ Matched(pollers[k].trade_no) # {}
    /\ LET t == pollers[k].trade_no
       IN  Commit(ReconcileFailing(t, wallet[orders[t].credential_id], resp, fail))
    /\ pollers' = [pollers EXCEPT ![k].poll_count = pollers[k].poll_count + 1]
    /\ UNCHANGED <<wallet, active_tasks, now, last_scan, dfs_in, dfs_out,
                   helper, reply>>

\* The order engine and the reconciler on the orders of merchant 1, the
\* database failing at times.
NextFailure ==
    \/ NextOne
    \/ \E k \in DOMAIN pollers, fail \in Failures :
            \E resp \in Responses(Matched(pollers[k].trade_no)) :
                PollerCheckFailing(k, resp, fail)

SpecFailure == Init /\ [][NextFailure]_vars

\* ---- check_payment called on any trade_no -------------------------------------

\* One call check_payment(t), whatever the order's status; helper keeps the
\* call, what it returned, whether it queried the wallet and whether the
\* wallet answered.
CheckPaymentCall(t, qok, resp) ==
    /\ Len(balance_logs) < MaxLogs
    /\ LET out == CheckPayment(t, qok, resp)
       IN  /\ Commit(out)
           /\ helper' = [fn |-> "check_payment", trade_no |-> t,
                         ret |-> out.ret, queried |-> out.queried,
                         answered |-> out.queried /\ qok]
    /\ UNCHANGED <<wallet, active_tasks, pollers, now, last_scan, dfs_in,
                   dfs_out, reply>>

\* The order engine of merchant 1, the operator spending from the wallet,
\* and check_payment called on the trade_nos of its orders and on one that
\* names no order.
NextCheck ==
    \/ NextOne
    \/ WalletChange(1, -1)
    \/ \E t \in 1..(MaxOrders + 1), qok \in BOOLEAN :
            \E resp \in Responses(IF qok THEN Matched(t) ELSE {}) :
                CheckPaymentCall(t, qok, resp)

SpecCheck == Init /\ [][NextCheck]_vars

\* ---- a merchant that answers "success" from one attempt on --------------------

\* The merchant's answers to the notifications of the orders in ids: a body
\* other than "success" to each of the first helper.k attempts of an order,
\* "success" from then on.
Answers(ids) == [i \in ids |-> orders[i].callback_attempts + 1 > helper.k]

\* One order of merchant 1, created at time 0, and a merchant that fails the
\* first k notifications, 0 <= k <= 5.
InitMerchant ==
    /\ orders = <<[merchant_id |-> 1, credential_id |-> CredentialOf(1),
                   original_money |-> 1, money |-> 1, adjust_amount |-> 0,
                   status |-> PENDING, base_balance |-> MaxBalance - 1,
                   confirm_balance |-> NULL, notify_url |-> NotifyUrlOf(1),
                   created_at |-> 0, paid_at |-> NULL, expired_at |-> NULL,
                   callback_status |-> 0, callback_attempts |-> 0]>>
    /\ merchant_money = [m \in Merchants |-> 0]
    /\ wallet = [c \in Merchants |-> MaxBalance - 1]
    /\ balance_logs = <<>>
    /\ callback_logs = <<>>
    /\ last_notify = NoPost
    /\ active_tasks = StartPaymentPolling(NoPollers, 1, 0).table
    /\ pollers = StartPaymentPolling(NoPollers, 1, 0).tasks
    /\ reply = NoReply
    /\ now = 0
    /\ last_scan = 0
    /\ dfs_in = NoCall
    /\ dfs_out = NoResult
    /\ \E k \in 0..Len(RETRY_INTERVALS) : helper = [fn |-> "merchant", k |-> k]

\* The order's poller, its buyer and the retry scanner, the merchant
\* answering as Answers has it.
NextMerchant ==
    \/ \E k \in DOMAIN pollers : PollerTimeout(k)
    \/ \E k \in DOMAIN pollers, qok \in BOOLEAN :
            /\ now <= MaxPayTime
            /\ PollerCheck(k, qok, Answers(IF qok THEN Matched(pollers[k].trade_no)
                                                  ELSE {}))
    \/ RetryScan(Answers(DueRows))
    \/ BuyerPays(1)
    \/ TickScan

SpecMerchant == InitMerchant /\ [][NextMerchant]_vars

\* ---- update_base_balances_after_expiry ----------------------------------------

\* update_base_balances_after_expiry writing the balance to every order of a
\* group, whatever its status.
RebaseAnyStatus(ords, balances, qok) ==
    [i \in DOMAIN ords |->
        IF qok[ords[i].credential_id]
           /\ \E j \in DOMAIN ords : /\ ords[j].status = PENDING
                                     /\ ords[j].credential_id = ords[i].credential_id
        THEN [ords[i] EXCEPT !.base_balance = balances[ords[i].credential_id]]
        ELSE ords[i]]

\* update_base_balances_after_expiry on the orders table: the PENDING orders
\* grouped by credential_id; for each group whose balance query succeeds
\* (qok[c]) base_balance of its orders becomes the credential's balance, a
\* group whose query fails is passed over.
Rebase(ords, balances, qok) ==
    [i \in DOMAIN ords |->
        IF ords[i].status = PENDING /\ qok[ords[i].credential_id]
        THEN [ords[i] EXCEPT !.base_balance = balances[ords[i].credential_id]]
        ELSE ords[i]]

\* One call update_base_balances_after_expiry(); helper keeps the call and
\* the outcome of each credential's balance query.
UpdateBaseBalances(qok) ==
    /\ orders' = Rebase(orders, wallet, qok)
    /\ helper' = [fn |-> "update_base_balances_after_expiry", qok |-> qok]
    /\ UNCHANGED <<merchant_money, wallet, balance_logs, callback_logs,
                   last_notify, active_tasks, pollers, reply, now, last_scan,
                   dfs_in, dfs_out>>

\* The order engine and the reconciler of two merchants with
\* update_base_balances_after_expiry called at any moment.
NextRebase ==
    \/ \E m \in Merchants : CreatePayment(m, 1, TRUE)
    \/ \E k \in DOMAIN pollers, qok \in BOOLEAN :
            \E resp \in Responses(IF qok THEN Matched(pollers[k].trade_no) ELSE {}) :
                PollerCheck(k, qok, resp)
    \/ \E t \in DOMAIN orders : CancelOrder(t)
    \/ \E c \in Merchants : WalletChange(c, 1)
    \/ \E qok \in [Merchants -> BOOLEAN] : UpdateBaseBalances(qok)

SpecRebase == Init /\ [][NextRebase]_vars

\* ---- query_balance and its failure counter -------------------------------------

\* The count of consecutive failures from which query_balance logs its
\* warning.
WarnAfter == 3

\* BalanceChecker.query_balance on an instance whose _consecutive_failures is
\* count: the new count, and whether the warning is logged.
QueryBalance(count, qok) ==
    IF qok THEN [count |-> 0, warn |-> FALSE]
    ELSE [count |-> count + 1, warn |-> count + 1 >= WarnAfter]

\* The wallet's run of consecutive failed queries on credential c after one
\* more query.
Streak(streak, c, qok) ==
    [streak EXCEPT ![c] = IF qok THEN 0 ELSE streak[c] + 1]

\* MaxCheckers pollers, each with the BalanceChecker it creates when it
\* starts and the credential of its order; no query made yet.
InitWarn ==
    /\ orders = <<>>
    /\ merchant_money = [m \in Merchants |-> 0]
    /\ wallet = [c \in Merchants |-> 1]
    /\ balance_logs = <<>>
    /\ callback_logs = <<>>
    /\ last_notify = NoPost
    /\ active_tasks = <<>>
    /\ pollers = <<>>
    /\ reply = NoReply
    /\ now = 0
    /\ last_scan = 0
    /\ dfs_in = NoCall
    /\ dfs_out = NoResult
    /\ \E creds \in [1..MaxCheckers -> Merchants] :
            helper = [fn |-> "query_balance",
                      credential |-> creds,
                      failures |-> [k \in 1..MaxCheckers |-> 0],
                      streak |-> [c \in Merchants |-> 0],
                      last |-> [credential |-> 0, qok |-> TRUE, warn |-> FALSE]]

\* A poll of poller k: check_payment on the poller's own BalanceChecker
\* queries the balance of the order's credential.
PollerQuery(k, qok) ==
    /\ helper.fn = "query_balance"
    /\ qok \/ (/\ helper.failures[k] < MaxFailures
               /\ helper.streak[helper.credential[k]] < MaxFailures)
    /\ LET c == helper.credential[k]
           out == QueryBalance(helper.failures[k], qok)
       IN  helper' = [helper EXCEPT
                !.failures[k] = out.count,
                !.streak = Streak(helper.streak, c, qok),
                !.last = [credential |-> c, qok |-> qok, warn |-> out.warn]]
    /\ UNCHANGED <<orders, merchant_money, wallet, balance_logs,
                   callback_logs, last_notify, active_tasks, pollers, reply,
                   now, last_scan, dfs_in, dfs_out>>

\* The query endpoint's inline reconciliation of an order of credential c:
\* check_payment on a BalanceChecker created for the request.
InlineQuery(c, qok) ==
    /\ helper.fn = "query_balance"
    /\ qok \/ helper.streak[c] < MaxFailures
    /\ LET out == QueryBalance(0, qok)
       IN  helper' = [helper EXCEPT
                !.streak = Streak(helper.streak, c, qok),
                !.last = [credential |-> c, qok |-> qok, warn |-> out.warn]]
    /\ UNCHANGED <<orders, merchant_money, wallet, balance_logs,
                   callback_logs, last_notify, active_tasks, pollers, reply,
                   now, last_scan, dfs_in, dfs_out>>

NextWarn ==
    \/ \E k \in 1..MaxCheckers, qok \in BOOLEAN : PollerQuery(k, qok)
    \/ \E c \in Merchants, qok \in BOOLEAN : InlineQuery(c, qok)

SpecWarn == InitWarn /\ [][NextWarn]_vars

\* ---- create_order on the money of the request ------------------------------

\* Decimal(money_str).quantize(Decimal("0.01")) on a money given in tenths
\* of a cent: the cents, rounded half to even.
ParseMoney(mills) ==
    LET q == mills \div 10
        r == mills % 10
    IN  IF r < 5 THEN q
        ELSE IF r > 5 THEN q + 1
        ELSE IF q % 2 = 0 THEN q ELSE q + 1

\* create_payment on a request of merchant 1 whose money is mills tenths of
\* a cent: no check of the parsed amount precedes adjust_amount.
CreatePaymentMoney(mills, qok) ==
    CreatePayment(1, ParseMoney(mills), qok)

NextAmount ==
    \/ \E mills \in 0..MaxMills, qok \in BOOLEAN : CreatePaymentMoney(mills, qok)
    \/ \E k \in DOMAIN pollers, qok \in BOOLEAN :
            \E resp \in Responses(IF qok THEN Matched(pollers[k].trade_no) ELSE {}) :
                PollerCheck(k, qok, resp)
    \/ \E t \in DOMAIN orders : CancelOrder(t)
    \/ \E d \in 1..MaxPay : WalletChange(1, d)

SpecAmount == Init /\ [][NextAmount]_vars

\* ---- the expiry sweep as the last resort ------------------------------------

\* Orders of one credential, their pollers and the sweeper over time.
NextSweep ==
    \/ \E qok \in BOOLEAN : CreatePayment(1, 1, qok)
    \/ \E k \in DOMAIN pollers : PollerTimeout(k)
    \/ \E k \in DOMAIN pollers : PollerStop(k)
    \/ \E k \in DOMAIN pollers, qok \in BOOLEAN :
            \E resp \in Responses(IF qok THEN Matched(pollers[k].trade_no) ELSE {}) :
                PollerCheck(k, qok, resp)
    \/ \E t \in DOMAIN orders : CancelOrder(t)
    \/ \E k \in DOMAIN pollers : PollerCancelled(k)
    \/ ExpireSweep
    \/ WalletChange(1, 1)
    \/ Tick(ExpireSeconds, MaxNow)

\* _order_expiry_task runs for as long as the application does and the clock
\* goes on; nothing is assumed of the pollers, which may have died.
SpecSweepFair ==
    /\ Init /\ [][NextSweep]_vars
    /\ WF_vars(ExpireSweep)
    /\ WF_vars(Tick(ExpireSeconds, MaxNow))

\* ---- the merchants' balances over reconciliations, expiry and cancel ----------

NextLedger ==
    \/ \E m \in Merchants : CreatePayment(m, 1, TRUE)
    \/ \E k \in DOMAIN pollers : PollerTimeout(k)
    \/ \E k \in DOMAIN pollers, qok \in BOOLEAN :
            \E resp \in Responses(IF qok THEN Matched(pollers[k].trade_no) ELSE {}) :
                PollerCheck(k, qok, resp)
    \/ \E t \in DOMAIN orders : CancelOrder(t)
    \/ ExpireSweep
    \/ \E c \in Merchants : WalletChange(c, 1)
    \/ Tick(ExpireSeconds, MaxNow)

SpecLedger == Init /\ [][NextLedger]_vars

\* ---- properties -------------------------------------------------------------

RECURSIVE SumOver(_, _)
SumOver(f, S) ==
    IF S = {} THEN 0
    ELSE LET x == CHOOSE y \in S : TRUE IN f[x] + SumOver(f, S \ {x})

\* The sets of positions of amounts whose amounts sum to target.
Solutions(amounts, target) ==
    {S \in SUBSET DOMAIN amounts : SumOver(amounts, S) = target}

\* The positions in S in ascending order.
RECURSIVE Ascending(_)
Ascending(S) ==
    IF S = {} THEN <<>>
    ELSE LET lo == CHOOSE x \in S : \A y \in S : x <= y
         IN  <<lo>> \o Ascending(S \ {lo})

\* a comes before b in the search's visiting order (both ascending, same length).
VisitedBefore(a, b) ==
    \E k \in DOMAIN a : a[k] < b[k] /\ \A j \in 1..(k - 1) : a[j] = b[j]

\* C5: _subset_sum_dfs returns None iff no subset of the amounts sums to the
\* target; otherwise it returns positions in ascending order whose amounts sum
\* to the target, no subset summing to the target is smaller, and every other
\* one of the same size is visited later in ascending-index order.
C5_SubsetSumMinimalFirst ==
    dfs_in.called =>
        LET sols == Solutions(dfs_in.amounts, dfs_in.target)
            idx == dfs_out.idx
        IN  /\ dfs_out.found <=> sols # {}
            /\ dfs_out.found =>
                /\ idx = Ascending(Range(idx))
                /\ Range(idx) \in sols
                /\ \A T \in sols : Cardinality(T) >= Len(idx)
                /\ \A T \in sols :
                        Cardinality(T) = Len(idx) /\ T # Range(idx)
                            => VisitedBefore(idx, Ascending(T))

\* A call with a larger solution visited before the result and another
\* solution of the result's size.
C5_Witness ==
    /\ dfs_in.called
    /\ dfs_out.found
    /\ LET sols == Solutions(dfs_in.amounts, dfs_in.target)
       IN  /\ \E T \in sols : /\ Cardinality(T) > Len(dfs_out.idx)
                              /\ 1 \in T
                              /\ 1 \notin Range(dfs_out.idx)
           /\ \E T \in sols : /\ Cardinality(T) = Len(dfs_out.idx)
                              /\ T # Range(dfs_out.idx)


\* ---- reconciliation properties ----------------------------------------------

\* The orders named by the balance_logs rows that record a match.
MatchedEver == UNION {Range(balance_logs[k].matched_trade_nos) : k \in DOMAIN balance_logs}

\* The money of the orders in ids that belong to merchant m.
MoneyOf(ids, m) ==
    SumOver([i \in DOMAIN orders |->
                IF orders[i].merchant_id = m THEN orders[i].money ELSE 0], ids)

\* C1: whatever the order in which the pollers' and the query endpoint's
\* check_payment calls run, an order is matched by at most one of them, and its
\* merchant's balance is credited with its money at most once.
C1_NoDoubleMatch ==
    /\ \A a, b \in DOMAIN balance_logs :
            a < b => Range(balance_logs[a].matched_trade_nos)
                        \cap Range(balance_logs[b].matched_trade_nos) = {}
    /\ \A m \in Merchants : merchant_money[m] = MoneyOf(MatchedEver, m)

\* Two check_payment calls have each matched an order of the same credential.
C1_Witness ==
    \E a, b \in DOMAIN balance_logs :
        /\ a < b
        /\ \E i \in Range(balance_logs[a].matched_trade_nos),
              j \in Range(balance_logs[b].matched_trade_nos) :
                orders[i].credential_id = orders[j].credential_id

\* C2: no two PENDING orders bound to the same credential carry the same money.
C2_PendingAmountsDistinct ==
    \A i, j \in DOMAIN orders :
        /\ i # j
        /\ orders[i].status = PENDING
        /\ orders[j].status = PENDING
        /\ orders[i].credential_id = orders[j].credential_id
        => orders[i].money # orders[j].money

\* Two PENDING orders of one credential were requested with the same amount.
C2_Witness ==
    \E i, j \in DOMAIN orders :
        /\ i # j
        /\ orders[i].status = PENDING
        /\ orders[j].status = PENDING
        /\ orders[i].credential_id = orders[j].credential_id
        /\ orders[i].original_money = orders[j].original_money

\* C3: an order's status only ever goes from PENDING to PAID or from PENDING
\* to EXPIRED; a PAID or EXPIRED order keeps its status under check_payment,
\* expire_orders, the poller's timeout and the admin's cancel_order.
C3_StatusMonotone ==
    [][\A i \in DOMAIN orders :
            orders'[i].status # orders[i].status
                => /\ orders[i].status = PENDING
                   /\ orders'[i].status \in {PAID, EXPIRED}]_vars

\* The sweep's cutoff has passed for a PAID order and for an EXPIRED one.
C3_Witness ==
    \E i, j \in DOMAIN orders :
        /\ orders[i].status = PAID
        /\ orders[j].status = EXPIRED
        /\ orders[i].created_at < now - ExpireSeconds
        /\ orders[j].created_at < now - ExpireSeconds

\* The PENDING orders of credential c.
PendingOn(c) ==
    {i \in DOMAIN orders :
        orders[i].status = PENDING /\ orders[i].credential_id = c}

\* The orders of credential c that this step marks PAID.
MarkedOn(c) == {i \in PendingOn(c) : orders'[i].status = PAID}

\* The least base_balance among the orders in ids.
MinBase(ids) ==
    CHOOSE b \in {orders[i].base_balance : i \in ids} :
        \A i \in ids : b <= orders[i].base_balance

\* The earliest created order in ids, as _get_pending_orders sorts them.
EarliestOf(ids) == SortByCreated(orders, ids)[1]

\* The orders that go from any status to PAID in this step.
NewlyPaid ==
    {i \in DOMAIN orders : orders[i].status # PAID /\ orders'[i].status = PAID}

\* C4 as stated: the orders a check_payment call marks PAID were PENDING on
\* the credential, and their money sums to the balance now minus the least
\* base_balance among the credential's PENDING orders.
C4_Original ==
    [][\A c \in DOMAIN wallet :
            MarkedOn(c) # {} =>
                /\ NewlyPaid \subseteq PendingOn(c)
                /\ \A i \in MarkedOn(c) : orders'[i].confirm_balance = wallet[c]
                /\ SumOver([i \in DOMAIN orders |-> orders[i].money], MarkedOn(c))
                        = wallet[c] - MinBase(PendingOn(c))]_vars

\* C4: the orders a check_payment call marks PAID were PENDING on the
\* credential, and their money sums to the balance now minus the base_balance
\* of the earliest created of the credential's PENDING orders.
C4_MatchedSumFromEarliestBase ==
    [][\A c \in DOMAIN wallet :
            MarkedOn(c) # {} =>
                /\ NewlyPaid \subseteq PendingOn(c)
                /\ \A i \in MarkedOn(c) : orders'[i].confirm_balance = wallet[c]
                /\ SumOver([i \in DOMAIN orders |-> orders[i].money], MarkedOn(c))
                        = wallet[c]
                            - orders[EarliestOf(PendingOn(c))].base_balance]_vars

\* A check_payment call marked the earlier order PAID from its own
\* base_balance while a later order, created beside it (its amount was
\* adjusted) with a lower base_balance, stayed PENDING.
C4_Witness ==
    \E i, j \in DOMAIN orders :
        /\ i < j
        /\ orders[i].credential_id = orders[j].credential_id
        /\ orders[i].status = PAID
        /\ orders[j].status = PENDING
        /\ orders[j].base_balance < orders[i].base_balance
        /\ orders[i].confirm_balance - orders[i].base_balance = orders[i].money
        /\ orders[j].money > orders[j].original_money

\* This step is a check_payment(t) call that appended a balance_logs row.
IsCheckOf(t) ==
    /\ t \in DOMAIN orders
    /\ orders[t].status = PENDING
    /\ Len(balance_logs') = Len(balance_logs) + 1
    /\ \E qok \in BOOLEAN, resp \in Responses(Matched(t)) :
            LET out == CheckPayment(t, qok, resp)
            IN  /\ orders' = out.orders
                /\ merchant_money' = out.merchant_money
                /\ balance_logs' = out.balance_logs
                /\ callback_logs' = out.callback_logs

\* C6: check_payment(t) takes its baseline and its candidates among the
\* PENDING orders of t's credential only, and changes the status,
\* confirm_balance or paid_at of no order bound to another credential.
C6_CredentialIsolation ==
    [][\A t \in DOMAIN orders :
            IsCheckOf(t) =>
                LET c == orders[t].credential_id
                    row == balance_logs'[Len(balance_logs')]
                IN  /\ \A i \in Range(row.matched_trade_nos) : i \in PendingOn(c)
                    /\ row.matched_trade_nos # <<>> =>
                            SumOver([i \in DOMAIN orders |-> orders[i].money],
                                    Range(row.matched_trade_nos))
                                = wallet[c]
                                    - orders[EarliestOf(PendingOn(c))].base_balance
                    /\ \A i \in DOMAIN orders :
                            orders[i].credential_id # c =>
                                /\ orders'[i].status = orders[i].status
                                /\ orders'[i].confirm_balance
                                        = orders[i].confirm_balance
                                /\ orders'[i].paid_at = orders[i].paid_at]_vars

\* An order was matched while an order bound to another credential, whose
\* wallet had received exactly its money, stayed PENDING.
C6_Witness ==
    \E i, j \in DOMAIN orders :
        /\ orders[i].credential_id # orders[j].credential_id
        /\ orders[i].status = PAID
        /\ orders[j].status = PENDING
        /\ wallet[orders[j].credential_id] - orders[j].base_balance
                = orders[j].money
        /\ balance_logs # <<>>
        /\ balance_logs[Len(balance_logs)].matched_trade_nos = <<i>>

\* This step appended a balance_logs row recording a failed balance query.
QueryFailureLogged ==
    /\ Len(balance_logs') > Len(balance_logs)
    /\ \E k \in DOMAIN balance_logs' \ DOMAIN balance_logs :
            balance_logs'[k].match_result = "query failed"

\* C7: a check_payment call whose balance query fails changes no order's
\* status and no merchant's balance, sends no callback, appends exactly one
\* balance_logs row and returns False, so that its poller goes on.
C7_QueryFailureChangesNothing ==
    [][QueryFailureLogged =>
            /\ orders' = orders
            /\ merchant_money' = merchant_money
            /\ callback_logs' = callback_logs
            /\ last_notify' = last_notify
            /\ balance_logs' = Append(balance_logs, BLog("query failed", <<>>))
            /\ active_tasks' = active_tasks]_vars

\* A balance query failed while the wallet held exactly the money of a
\* PENDING order above its base_balance, and the order is PENDING still.
C7_Witness ==
    /\ balance_logs # <<>>
    /\ balance_logs[Len(balance_logs)].match_result = "query failed"
    /\ \E t \in DOMAIN orders :
            /\ orders[t].status = PENDING
            /\ t \in DOMAIN active_tasks
            /\ wallet[orders[t].credential_id] - orders[t].base_balance
                    = orders[t].money


\* ---- callback properties ----------------------------------------------------

\* The number of callback_logs rows of order i.
RowsOf(i) ==
    Cardinality({k \in DOMAIN callback_logs : callback_logs[k].order_id = i})

\* Order i's notification is over as the callback contract has it: confirmed
\* within 6 attempts, or failed for good with exactly 6 rows.
Settled(i) ==
    \/ orders[i].callback_status = 1 /\ orders[i].callback_attempts <= 6
    \/ orders[i].callback_status = 2 /\ RowsOf(i) = 6

\* C8 as stated: every order that reaches PAID is, the scanner running,
\* eventually confirmed within 6 attempts or failed with exactly 6 rows.
C8_Original ==
    \A i \in 1..MaxOrders :
        (i \in DOMAIN orders /\ orders[i].status = PAID)
            ~> (i \in DOMAIN orders /\ Settled(i))

\* C8: every order with a notify_url that is PAID with no more than 6
\* attempts made is, the scanner running, eventually confirmed within 6
\* attempts or failed with exactly 6 rows.
C8_NotifiedOrExhausted ==
    \A i \in 1..MaxOrders :
        (/\ i \in DOMAIN orders
         /\ orders[i].status = PAID
         /\ orders[i].notify_url
         /\ orders[i].callback_attempts <= 6)
            ~> (i \in DOMAIN orders /\ Settled(i))

\* The merchant answers "success" to the sixth attempt, made when the whole
\* schedule had elapsed.
C8_Witness ==
    \E i \in DOMAIN orders :
        /\ orders[i].status = PAID
        /\ orders[i].callback_status = 1
        /\ orders[i].callback_attempts = 6
        /\ RowsOf(i) = 6
        /\ last_notify = Post(i, 6, TRUE)
        /\ now - orders[i].paid_at >= TotalWait(5)

\* The callback_logs rows this step appends.
NewRows == {callback_logs'[k] : k \in DOMAIN callback_logs' \ DOMAIN callback_logs}

\* This step is an iteration of the retry scanner.
IsScan == last_scan' # last_scan

\* C9: when attempt n of an order's notification completes, callback_status
\* is 1 if the merchant's stripped body is "success", else 3 when n < 6 and 2
\* from n = 6 on, a transport error being a failure; and the scanner issues
\* no attempt numbered above 6.
C9_StatusAfterAttempt ==
    [][NewRows # {} =>
            LET p == last_notify'
                o == orders'[p.order_id]
            IN  /\ LogRow(p.order_id, p.attempt) \in NewRows
                /\ o.callback_attempts = p.attempt
                /\ o.callback_status =
                        IF p.ok THEN 1 ELSE IF p.attempt < 6 THEN 3 ELSE 2
                /\ IsScan => \A r \in NewRows : r.attempt <= 6]_vars

\* The scanner's sixth attempt of a PAID order failed.
C9_Witness ==
    \E i \in DOMAIN orders :
        /\ orders[i].status = PAID
        /\ last_notify = Post(i, 6, FALSE)
        /\ orders[i].callback_status = 2
        /\ last_scan = now
        /\ now > MaxRenotifyTime

\* The sum of the first n of the intervals 5, 30, 60, 300, 1800.
FirstIntervals(n) == SumSeq(SubSeq(<<5, 30, 60, 300, 1800>>, 1, n))

\* C10: a scan retries an order that has made n attempts, 1 <= n <= 5, only
\* when now - baseTime is at least the sum of the first n intervals, baseTime
\* being paid_at, or created_at when paid_at is null; it makes at most one
\* retry per order, and that retry is attempt n + 1.
C10_RetrySchedule ==
    [][IsScan =>
            \A i \in DOMAIN orders :
                LET n == orders[i].callback_attempts
                    mine == {k \in DOMAIN callback_logs' \ DOMAIN callback_logs :
                                callback_logs'[k].order_id = i}
                    baseTime == IF orders[i].paid_at # NULL
                                THEN orders[i].paid_at
                                ELSE orders[i].created_at
                IN  /\ Cardinality(mine) <= 1
                    /\ mine = {} => orders'[i].callback_attempts = n
                    /\ mine # {} =>
                        /\ n >= 1
                        /\ n <= 5
                        /\ \A k \in mine : callback_logs'[k].attempt = n + 1
                        /\ orders'[i].callback_attempts = n + 1
                        /\ now - baseTime >= FirstIntervals(n)]_vars

\* The scanner made the fourth attempt at the first scan 95 s or more after
\* the payment, and the order waits for the 395 s of the fifth.
C10_Witness ==
    \E i \in DOMAIN orders :
        /\ orders[i].status = PAID
        /\ orders[i].callback_attempts = 4
        /\ orders[i].callback_status = 3
        /\ last_notify = Post(i, 4, FALSE)
        /\ last_scan = now
        /\ now - orders[i].paid_at >= 95
        /\ now - orders[i].paid_at < 125

\* ---- callback fields and order status ---------------------------------------

\* This step changes callback_status or callback_attempts of order i.
CallbackChanged(i) ==
    \/ orders'[i].callback_status # orders[i].callback_status
    \/ orders'[i].callback_attempts # orders[i].callback_attempts

\* C11 as stated: callback_status and callback_attempts of an order change
\* only while the order is PAID, whatever the reconciler's sends, the
\* scanner's retries and the admin's renotify_order requests.
C11_Original ==
    [][\A i \in DOMAIN orders :
            CallbackChanged(i) => orders'[i].status = PAID]_vars

\* C11: callback_status and callback_attempts of an order change only while
\* the order is PAID, or while it is PENDING and then by an admin's
\* renotify_order request alone (no reconciliation, no scan); those of an
\* EXPIRED order never change.
C11_CallbackOnlyPaidOrManual ==
    [][\A i \in DOMAIN orders :
            CallbackChanged(i) =>
                \/ orders'[i].status = PAID
                \/ /\ orders[i].status = PENDING
                   /\ orders'[i].status = PENDING
                   /\ ~IsScan
                   /\ balance_logs' = balance_logs
                   /\ orders'[i].callback_attempts
                        = orders[i].callback_attempts + 1]_vars

\* An order notified by the admin while PENDING has timed out since, with
\* the attempt still recorded.
C11_Witness ==
    \E i \in DOMAIN orders :
        /\ orders[i].status = EXPIRED
        /\ orders[i].callback_attempts > 0
        /\ orders[i].callback_status \in {1, 3}
        /\ now - orders[i].created_at >= PollTimeout

\* ---- amount adjustment properties -------------------------------------------

\* The amounts held by the PENDING orders of credential c.
HeldBy(ords, c) ==
    {ords[i].money : i \in {j \in DOMAIN ords :
                                /\ ords[j].status = PENDING
                                /\ ords[j].credential_id = c}}

\* The steps k in 0..99 for which original + k is not held by a PENDING
\* order of credential c.
FreeSteps(ords, c, original) ==
    {k \in 0..(AdjustSteps - 1) : original + k \notin HeldBy(ords, c)}

\* The smallest member of the non-empty set S of numbers.
Least(S) == CHOOSE x \in S : \A y \in S : x <= y

\* C12: create_order for credential c and requested amount m stores
\* money = m + 0.01 * k for the smallest k in 0..99 whose amount no PENDING
\* order of credential c holds; orders of other credentials do not influence k.
C12_SmallestFreePerCredential ==
    [][Len(orders') = Len(orders) + 1 =>
            LET new == orders'[Len(orders')]
                free == FreeSteps(orders, new.credential_id, new.original_money)
            IN  /\ free # {}
                /\ new.money = new.original_money + Least(free)
                /\ new.adjust_amount = Least(free)]_vars

\* The credential whose wallet a request of merchant pid is paid into.
RequestCredential(req) == CredentialOf(req.pid)

\* The request passes every check that create_payment and create_order make
\* before adjust_amount.
PassesChecks(req) ==
    /\ req.fields_ok /\ req.pid_int /\ req.pid \in Merchants
    /\ req.sign_ok /\ req.money_ok

\* C13: when all 100 amounts m, m + 0.01, ..., m + 0.99 are held by PENDING
\* orders of the credential, create_order fails with AmountConflict ("busy,
\* retry"): no row is inserted, no poller is started and the existing orders
\* are unchanged; when at least one of them is free, it does not fail so.
C13_ConflictIffLadderFull ==
    [][\A req \in CreateRequests :
            CreateEndpoint(req) /\ PassesChecks(req) =>
                IF FreeSteps(orders, RequestCredential(req), req.money) = {}
                THEN /\ reply' = Fault("create", req, "busy")
                     /\ orders' = orders
                     /\ active_tasks' = active_tasks
                     /\ pollers' = pollers
                ELSE /\ reply'.code = 1
                     /\ Len(orders') = Len(orders) + 1]_vars

\* ---- expiry properties ------------------------------------------------------

\* Order i is PENDING and was created more than 10 minutes before now.
Overdue(i) ==
    /\ orders[i].status = PENDING
    /\ orders[i].created_at < now - ExpireSeconds

\* C14: expire_orders run at time now sets status = 2 and expired_at = now
\* for exactly the orders with status 0 and created_at < now - 10 minutes,
\* leaves every other order unchanged, and run a second time at the same
\* instant changes nothing.
C14_SweepExpiresExactlyOverdue ==
    [][ExpireSweep =>
            /\ DOMAIN orders' = DOMAIN orders
            /\ \A i \in DOMAIN orders :
                    orders'[i] = IF Overdue(i)
                                 THEN [orders[i] EXCEPT !.status = EXPIRED,
                                                        !.expired_at = now]
                                 ELSE orders[i]
            /\ ExpireOrders(orders', now) = orders']_vars

\* The sweep has just expired an order, whose poller is registered still,
\* and has left alone an order created exactly 10 minutes ago.
C14_Witness ==
    \E i, j \in DOMAIN orders :
        /\ orders[i].status = EXPIRED
        /\ orders[i].expired_at = now
        /\ orders[i].created_at < now - ExpireSeconds
        /\ i \in DOMAIN active_tasks
        /\ pollers[active_tasks[i]].state = "running"
        /\ orders[j].status = PENDING
        /\ orders[j].created_at = now - ExpireSeconds

\* ---- poller properties ------------------------------------------------------

\* The poller tasks of trade_no t that are running.
RunningFor(t) ==
    {k \in DOMAIN pollers :
        pollers[k].trade_no = t /\ pollers[k].state = "running"}

\* C15: at every moment at most one poller task per trade_no is running, and
\* start_payment_polling(t) while a poller for t is registered in the active
\* table creates no task and leaves the table unchanged, for any sequence of
\* start, cancel and poller-termination events.
C15_SinglePollerPerTradeNo ==
    /\ [](\A t \in 1..(MaxOrders + 1) : Cardinality(RunningFor(t)) <= 1)
    /\ [][\A t \in DOMAIN active_tasks :
                StartPolling(t) =>
                    pollers' = pollers /\ active_tasks' = active_tasks]_vars

\* Task k is cancelled and has not terminated yet.
Cancelled(k) == k \in DOMAIN pollers /\ pollers[k].state = "cancelled"

\* Task k has terminated.
Done(k) == k \in DOMAIN pollers /\ pollers[k].state = "done"

\* C16: after an admin cancel_order on a PENDING order t the order has status
\* 2 (EXPIRED) and no poller of t is registered or running; the cancelled
\* poller calls check_payment no more, its only step being its termination,
\* which it takes when the event loop resumes it; and no reconciliation marks
\* t PAID afterwards.
C16_CancelStopsPoller ==
    /\ [][\A t \in DOMAIN orders :
                CancelOrder(t) =>
                    /\ orders'[t].status = EXPIRED
                    /\ orders'[t].expired_at = now
                    /\ t \notin DOMAIN active_tasks'
                    /\ RunningFor(t)' = {}]_vars
    /\ [][\A k \in DOMAIN pollers :
                pollers[k].state = "cancelled" =>
                    /\ pollers'[k] \in {pollers[k], DoneTask(pollers[k].trade_no)}
                    /\ pollers'[k] # pollers[k] => balance_logs' = balance_logs]_vars
    /\ [][\A i \in DOMAIN orders :
                orders[i].status = EXPIRED => orders'[i].status = EXPIRED]_vars
    /\ \A k \in 1..MaxOrders : Cancelled(k) ~> Done(k)

\* Order t was cancelled after a check of its poller, the poller has
\* terminated, and the buyer's money has reached the wallet since: t stays
\* EXPIRED.
C16_Witness ==
    \E t \in DOMAIN orders :
        /\ orders[t].status = EXPIRED
        /\ Done(t)
        /\ t \notin DOMAIN active_tasks
        /\ balance_logs # <<>>
        /\ wallet[orders[t].credential_id] - orders[t].base_balance
                = orders[t].money

\* The stop conditions of task k's iteration: 600 s have elapsed since it
\* started, or its order does not exist, or the order's status is not 0.
MustStop(k) ==
    \/ now - pollers[k].start_time >= PollTimeout
    \/ pollers[k].trade_no \notin DOMAIN orders
    \/ /\ pollers[k].trade_no \in DOMAIN orders
       /\ orders[pollers[k].trade_no].status # PENDING

\* Task k calls check_payment in this step: it counts one more poll, or it
\* ends on a check that returned True.
PollerCalls(k) ==
    /\ pollers[k].state = "running"
    /\ \/ pollers'[k].poll_count = pollers[k].poll_count + 1
       \/ /\ pollers'[k].state = "done"
          /\ balance_logs' # balance_logs

\* C17: in each iteration the poller of trade_no t evaluates its stop
\* conditions before it calls the reconciler: it calls check_payment(t) only
\* if less than 600 s have elapsed, the order exists and its stored status is
\* 0, and an iteration that finds one of the three failing terminates the
\* task without a call of check_payment.
C17_StopConditionsFirst ==
    [][\A k \in DOMAIN pollers :
            /\ PollerCalls(k) => ~MustStop(k)
            /\ /\ pollers[k].state = "running"
               /\ MustStop(k)
               /\ pollers'[k] # pollers[k]
               => /\ pollers'[k].state \in {"done", "cancelled"}
                  /\ pollers'[k].poll_count <= pollers[k].poll_count
                  /\ balance_logs' = balance_logs
                  /\ merchant_money' = merchant_money]_vars

\* Three tasks have terminated, one on each stop condition: one whose
\* trade_no has no order, one that expired its order at 600 s, and one
\* started for that order afterwards, which found it EXPIRED.
C17_Witness ==
    /\ now >= PollTimeout
    /\ balance_logs # <<>>
    /\ \E k \in DOMAIN pollers :
            Done(k) /\ pollers[k].trade_no \notin DOMAIN orders
    /\ \E k1, k2 \in DOMAIN pollers :
            /\ k1 # k2
            /\ Done(k1) /\ Done(k2)
            /\ pollers[k1].trade_no = pollers[k2].trade_no
            /\ pollers[k1].trade_no \in DOMAIN orders
            /\ orders[pollers[k1].trade_no].status = EXPIRED
            /\ orders[pollers[k1].trade_no].expired_at = now

\* ---- endpoint properties ----------------------------------------------------

\* This step is create_payment answering a request.
CreateAnswered == reply = NoReply /\ reply'.op = "create"

\* The pid of req is a number and names a merchant that exists.
MerchantExists(req) == req.pid_int /\ req.pid # UnknownMerchant

\* C18: the create endpoint validates in this order: required fields, then
\* the merchant's existence and activity, then the signature; a request that
\* fails any of them is answered with code -1, creates no order and starts no
\* poller; and a poller is started exactly when an order row is created.
C18_CreateValidatesInOrder ==
    [][CreateAnswered =>
        LET req == reply'.req
            created == Len(orders') = Len(orders) + 1
            started == /\ Len(pollers') = Len(pollers) + 1
                       /\ pollers'[Len(pollers')] = NewTask(Len(orders'), now)
                       /\ Len(orders') \in DOMAIN active_tasks'
                       /\ active_tasks'[Len(orders')] = Len(pollers')
        IN  /\ ~req.fields_ok => reply'.msg = "missing params"
            /\ req.fields_ok /\ ~MerchantExists(req) =>
                    reply'.msg \in {"pid invalid", "no merchant"}
            /\ req.fields_ok /\ MerchantExists(req) /\ req.pid = BannedMerchant =>
                    reply'.msg = "merchant banned"
            /\ req.fields_ok /\ req.pid_int /\ req.pid \in Merchants /\ ~req.sign_ok =>
                    reply'.msg = "sign error"
            /\ ~(req.fields_ok /\ req.pid_int /\ req.pid \in Merchants /\ req.sign_ok) =>
                    reply'.code = -1
            /\ reply'.code \in {-1, 1}
            /\ reply'.code = -1 =>
                    /\ orders' = orders
                    /\ pollers' = pollers
                    /\ active_tasks' = active_tasks
            /\ reply'.code = 1 => created /\ reply'.trade_no = Len(orders')
            /\ created <=> started
            /\ ~created => pollers' = pollers /\ active_tasks' = active_tasks]_vars

\* A request with every field, of an active merchant, with a wrong sign and
\* a money that is no decimal, was answered "sign error", while an order of
\* an earlier request is there with its poller.
C18_Witness ==
    /\ reply.op = "create"
    /\ reply.code = -1
    /\ reply.msg = "sign error"
    /\ reply.req.fields_ok /\ reply.req.pid \in Merchants /\ ~reply.req.money_ok
    /\ orders # <<>>
    /\ DOMAIN active_tasks = DOMAIN orders

\* This step is act=order answering a request.
QueryAnswered == reply = NoReply /\ reply'.op = "order"

\* The request carries the pid of a merchant and that merchant's key.
ValidCredentials(req) ==
    req.params_ok /\ req.pid_int /\ req.pid # UnknownMerchant /\ req.key_ok

\* The step reconciles nothing.
NoReconciliation ==
    /\ orders' = orders
    /\ merchant_money' = merchant_money
    /\ balance_logs' = balance_logs
    /\ callback_logs' = callback_logs
    /\ last_notify' = last_notify

\* C19: act=order with a valid pid and key, for an order of the merchant:
\* when the stored status is 0 it runs check_payment inline and reports
\* status 1 exactly when that call returned true, that is when it marked the
\* order PAID; when the stored status is 1 it reports 1 and when it is 2 it
\* reports 0, in both cases without reconciling.
C19_QueryReportsStatus ==
    [][QueryAnswered /\ ValidCredentials(reply'.req)
            /\ reply'.req.trade_no \in DOMAIN orders
            /\ orders[reply'.req.trade_no].merchant_id = reply'.req.pid =>
        LET t == reply'.req.trade_no IN
        /\ reply'.code = 1
        /\ reply'.status \in {0, 1}
        /\ orders[t].status = PENDING =>
                /\ Len(balance_logs') = Len(balance_logs) + 1
                /\ reply'.status = 1 <=> orders'[t].status = PAID
        /\ orders[t].status = PAID => reply'.status = 1 /\ NoReconciliation
        /\ orders[t].status = EXPIRED => reply'.status = 0 /\ NoReconciliation]_vars

\* act=order was answered with status 1 for an order that the inline
\* check_payment of the request has just matched, its poller still
\* registered.
C19_Witness ==
    /\ reply.op = "order"
    /\ reply.code = 1
    /\ reply.status = 1
    /\ balance_logs # <<>>
    /\ LET last == balance_logs[Len(balance_logs)] IN
        /\ last.match_result = "matched"
        /\ reply.trade_no \in Range(last.matched_trade_nos)
    /\ orders[reply.trade_no].status = PAID
    /\ reply.trade_no \in DOMAIN active_tasks

\* C20: get_order_status is read-only: it answers with the stored status of
\* the order, or with code -1 when there is no such order, and leaves the
\* orders, the merchants' balances, the balance log, the callback log and the
\* active-poller table unchanged; it does not query the wallet.
C20_StatusReadOnly ==
    [][reply = NoReply /\ reply'.op = "status" =>
        LET t == reply'.req IN
        /\ NoReconciliation
        /\ active_tasks' = active_tasks
        /\ pollers' = pollers
        /\ wallet' = wallet
        /\ reply'.trade_no = IF t \in DOMAIN orders THEN t ELSE NULL
        /\ t \in DOMAIN orders =>
                reply'.code = 1 /\ reply'.status = orders[t].status
        /\ t \notin DOMAIN orders => reply'.code = -1]_vars

\* get_order_status answered 0 for a PENDING order whose money the wallet
\* holds already: the order stays PENDING and nothing was logged.
C20_Witness ==
    /\ reply.op = "status"
    /\ reply.code = 1
    /\ reply.status = PENDING
    /\ orders[reply.trade_no].status = PENDING
    /\ wallet[orders[reply.trade_no].credential_id]
            - orders[reply.trade_no].base_balance = orders[reply.trade_no].money
    /\ balance_logs = <<>>

\* ---- return URL properties --------------------------------------------------

\* C21: the query of build_return_url's result contains every signed notify
\* parameter with its notify value, and every query parameter that was
\* already present in return_url with its original value or values, unless
\* its key is also a notify parameter key, in which case only the notify
\* value appears.
C21_ReturnUrlPreservesQuery ==
    helper.fn = "build_return_url" /\ helper.called =>
        /\ \A k \in Range(SignedKeys) :
                QueryValues(helper.result, k) = <<SignedParams[k]>>
        /\ \A k \in Range(QueryKeys(helper.query)) \ Range(SignedKeys) :
                QueryValues(helper.result, k) = QueryValues(helper.query, k)

\* ---- signature properties ---------------------------------------------------

\* C22: for every non-empty parameter map p and every key k,
\* verify_sign(p, k, generate_sign(p, k)) is true, also when p afterwards
\* carries the added keys sign and sign_type or keys with empty values, and
\* whatever the order in which the keys of p are listed.
C22_SignRoundTrip ==
    helper.fn = "verify_sign" /\ helper.called => helper.result = TRUE

\* A dict of two parameters was signed and then verified with sign,
\* sign_type and an empty parameter added and its items in reverse order.
C22_Witness ==
    /\ helper.fn = "verify_sign"
    /\ helper.called
    /\ helper.result
    /\ Len(helper.params) = 2
    /\ \A i \in DOMAIN helper.params : helper.params[i].value # ""
    /\ helper.extras = {"sign", "sign_type", "blank"}
    /\ helper.reversed

\* ---- attribution of payments --------------------------------------------------

\* The money of the PAID orders of credential c.
PaidMoney(c) ==
    SumOver([i \in DOMAIN orders |-> orders[i].money],
            {i \in DOMAIN orders :
                orders[i].status = PAID /\ orders[i].credential_id = c})

\* Per credential, the money of the PAID orders is at most the increase of
\* the credential's wallet balance since the start (the wallets start at 1).
PaidCoveredByWallet ==
    \A c \in Merchants : PaidMoney(c) <= wallet[c] - 1

\* C23: per credential, the money of the orders marked PAID since the start
\* never exceeds the increase of the credential's wallet balance since the
\* start, so that no incoming payment is attributed to two orders.  Stated
\* for the states whose orders all stored a balance read from the wallet as
\* their base_balance (a failed read stores 0).
C23_PaidCoveredByWallet ==
    (\A i \in DOMAIN orders : orders[i].base_balance >= 1)
        => PaidCoveredByWallet

\* The buyer of the PENDING order t has paid its money and nothing else is
\* outstanding: every order was created before any payment arrived (its
\* base_balance is the wallets' balance at the start, 1), and the wallet of
\* t's credential grew since by the money of the credential's PAID orders
\* and the money of t.
PaymentArrived(t) ==
    /\ t \in DOMAIN orders
    /\ orders[t].status = PENDING
    /\ \A i \in DOMAIN orders : orders[i].base_balance = 1
    /\ wallet[orders[t].credential_id] - 1
            = PaidMoney(orders[t].credential_id) + orders[t].money

\* C24: when the buyer of a PENDING order has paid exactly its money and the
\* wallet reports the increased balance without error, the order's poller
\* marks it PAID: a check_payment call of the poller that finds the payment
\* in the wallet marks the order PAID, also when another order of the
\* credential was matched earlier or an older sibling is still PENDING.
C24_PaidOrderIsMatched ==
    [][\A k \in DOMAIN pollers :
            (/\ PaymentArrived(pollers[k].trade_no)
             /\ \E resp \in Responses(Matched(pollers[k].trade_no)) :
                    PollerCheck(k, TRUE, resp))
                => orders'[pollers[k].trade_no].status = PAID]_vars

\* ---- signed success parameters ------------------------------------------------

\* C25: parameters signed with the merchant's key that carry
\* trade_status = TRADE_SUCCESS, the body of a notify POST or the query of a
\* signed return URL, are only produced for an order that is PAID at that
\* moment: a step that sends a notify POST sends it for an order that is
\* PAID after the step, and a reply that carries a signed return URL carries
\* it for a PAID order.
C25_SuccessOnlyForPaid ==
    [][/\ last_notify' # last_notify =>
            orders'[last_notify'.order_id].status = PAID
       /\ (reply' # reply /\ reply'.return_url.sign) =>
            orders'[reply'.return_url.trade_no].status = PAID]_vars

\* The same for the notify POSTs alone.
NotifyOnlyForPaid ==
    [][last_notify' # last_notify =>
            orders'[last_notify'.order_id].status = PAID]_vars

\* ---- the match as one step ---------------------------------------------------

\* The money of the PAID orders of merchant m.
PaidMoneyOf(m) ==
    MoneyOf({i \in DOMAIN orders : orders[i].status = PAID}, m)

\* C26: marking the matched orders PAID, crediting their merchants and
\* appending the BalanceLog row that names them are one atomic step, also
\* when a write fails: in every state the PAID orders are the orders named
\* by the match rows of balance_logs, and each merchant is credited with
\* the money of exactly these orders.
C26_MatchIsAtomic ==
    /\ {i \in DOMAIN orders : orders[i].status = PAID} = MatchedEver
    /\ \A m \in Merchants : merchant_money[m] = MoneyOf(MatchedEver, m)

\* ---- notifications of a match -------------------------------------------------

\* The step is a match: it appends a match row to balance_logs.
NewMatch ==
    /\ Len(balance_logs') = Len(balance_logs) + 1
    /\ balance_logs'[Len(balance_logs')].matched_trade_nos # <<>>

\* The orders the step's match row names.
NewMatched == Range(balance_logs'[Len(balance_logs')].matched_trade_nos)

IsCallOf(t) ==
    /\ helper' # helper
    /\ helper'.fn = "check_payment"
    /\ helper'.trade_no = t

\* C28: check_payment on a trade_no that names no order, or whose order is
\* PAID or EXPIRED, returns false, true and false respectively, without
\* querying the wallet, without a balance_logs row and without changing any
\* order or merchant.
C28_EarlyReturnsChangeNothing ==
    [][\A t \in 1..(MaxOrders + 1) :
            (IsCallOf(t) /\ (t \in DOMAIN orders => orders[t].status # PENDING))
                => /\ helper'.ret = (t \in DOMAIN orders /\ orders[t].status = PAID)
                   /\ ~helper'.queried
                   /\ NoReconciliation]_vars

\* check_payment was called on an EXPIRED order while a PENDING order of its
\* credential had a payment waiting in the wallet: it returned false.
C28_Witness ==
    /\ helper.fn = "check_payment"
    /\ helper.trade_no \in DOMAIN orders
    /\ orders[helper.trade_no].status = EXPIRED
    /\ ~helper.ret
    /\ \E i \in DOMAIN orders :
            /\ orders[i].status = PENDING
            /\ wallet[orders[i].credential_id]
                    = orders[i].base_balance + orders[i].money

\* ---- no positive change -------------------------------------------------------

\* The base_balance of the earliest PENDING order of c's credential group.
EarliestPendingBase(c) ==
    EarliestBase(orders, SameCredential(orders, GetPendingOrders(orders), c))

\* C29: when the balance the wallet reports minus the base_balance of the
\* earliest PENDING order of the credential is zero or negative,
\* check_payment changes no order and no merchant, sends no callback,
\* appends one balance_logs row 'no positive change' that names no order,
\* and returns false.
C29_NoPositiveChange ==
    [][\A t \in DOMAIN orders :
            (/\ IsCallOf(t)
             /\ helper'.answered
             /\ orders[t].status = PENDING
             /\ wallet[orders[t].credential_id]
                    - EarliestPendingBase(orders[t].credential_id) <= 0)
                => /\ orders' = orders
                   /\ merchant_money' = merchant_money
                   /\ callback_logs' = callback_logs
                   /\ last_notify' = last_notify
                   /\ balance_logs' = Append(balance_logs,
                                             BLog("no positive change", <<>>))
                   /\ ~helper'.ret]_vars

\* check_payment has just logged 'no positive change' for a PENDING order
\* whose credential's balance is below the earliest PENDING base_balance.
C29_Witness ==
    /\ helper.fn = "check_payment"
    /\ helper.answered
    /\ ~helper.ret
    /\ helper.trade_no \in DOMAIN orders
    /\ orders[helper.trade_no].status = PENDING
    /\ wallet[1] < EarliestPendingBase(1)
    /\ balance_logs # <<>>
    /\ balance_logs[Len(balance_logs)] = BLog("no positive change", <<>>)

\* ---- one callback_logs row per attempt ----------------------------------------

\* C30: every notification attempt that POSTs, by send_notify or by
\* retry_notify, successful or not, appends exactly one callback_logs row,
\* whose attempt number is the order's callback_attempts after the attempt;
\* hence the number of callback_logs rows of an order equals its
\* callback_attempts.
C30_OneRowPerAttempt ==
    /\ [](\A i \in DOMAIN orders : RowsOf(i) = orders[i].callback_attempts)
    /\ [][(\/ last_notify' # last_notify
           \/ callback_logs' # callback_logs
           \/ \E i \in DOMAIN orders :
                orders'[i].callback_attempts # orders[i].callback_attempts)
            => LET i == last_notify'.order_id IN
               /\ last_notify' # last_notify
               /\ last_notify'.attempt = orders'[i].callback_attempts
               /\ callback_logs' = Append(callback_logs,
                                          LogRow(i, orders'[i].callback_attempts))
               /\ \A j \in DOMAIN orders \ {i} :
                    orders'[j].callback_attempts = orders[j].callback_attempts]_vars

\* Two attempts of an order failed and the third was answered "success":
\* three attempts, three rows.
C30_Witness ==
    /\ orders[1].callback_attempts = 3
    /\ orders[1].callback_status = 1
    /\ RowsOf(1) = 3
    /\ last_notify = Post(1, 3, TRUE)

\* ---- failures followed by a success -------------------------------------------

\* C31: when the merchant answers the first k attempts, 0 <= k <= 5, with a
\* body other than "success" and attempt k + 1 with "success", callback_status
\* is 3 after each of the first k attempts and 1 after attempt k + 1, exactly
\* k + 1 callback_logs rows exist then, and the scanner issues no further
\* attempt for the order.
C31_FailuresThenSuccess ==
    helper.fn = "merchant" =>
        \A i \in DOMAIN orders :
            LET n == orders[i].callback_attempts IN
            /\ n <= helper.k + 1
            /\ RowsOf(i) = n
            /\ (1 <= n /\ n <= helper.k) => orders[i].callback_status = 3
            /\ n = helper.k + 1 => orders[i].callback_status = 1

\* The merchant failed three attempts and answered "success" to the fourth;
\* the scanner has gone on running to the end of the schedule since.
C31_Witness ==
    /\ helper.fn = "merchant"
    /\ helper.k = 3
    /\ orders[1].callback_attempts = 4
    /\ orders[1].callback_status = 1
    /\ RowsOf(1) = 4
    /\ last_scan = MaxCbNow

\* ---- exhausted notifications --------------------------------------------------

\* This step is an admin's renotify_order for order i: one more attempt, made
\* neither by a scan nor by a reconciliation.
IsRenotifyOf(i) ==
    /\ ~IsScan
    /\ balance_logs' = balance_logs
    /\ orders'[i].callback_attempts = orders[i].callback_attempts + 1

\* C32 as stated: callback_status = 2 implies callback_attempts >= 6; the
\* scanner issues no attempt for an exhausted order, and only an admin's
\* renotify_order triggers a further attempt for it.
C32_Original ==
    /\ [](\A i \in DOMAIN orders :
            orders[i].callback_status = 2 => orders[i].callback_attempts >= 6)
    /\ [][\A i \in DOMAIN orders :
            (orders[i].callback_status = 2 /\ CallbackChanged(i))
                => IsRenotifyOf(i)]_vars

\* C32: callback_status = 2 implies callback_attempts >= 6; for an exhausted
\* order that is PAID the scanner issues no attempt, the order stays PAID,
\* and only an admin's renotify_order triggers a further attempt.
C32_ExhaustedStaysExhausted ==
    /\ [](\A i \in DOMAIN orders :
            orders[i].callback_status = 2 => orders[i].callback_attempts >= 6)
    /\ [][\A i \in DOMAIN orders :
            (orders[i].callback_status = 2 /\ orders[i].status = PAID)
                => /\ orders'[i].status = PAID
                   /\ CallbackChanged(i) => IsRenotifyOf(i)]_vars

\* A PAID order's six attempts failed, and the scanner has run to the end of
\* the schedule without another one.
C32_Witness ==
    /\ orders[1].status = PAID
    /\ orders[1].paid_at = 0
    /\ orders[1].callback_status = 2
    /\ orders[1].callback_attempts = 6
    /\ last_scan = MaxCbNow

\* ---- rebasing -----------------------------------------------------------------

\* This step is a call update_base_balances_after_expiry().
IsRebase ==
    /\ helper'.fn = "update_base_balances_after_expiry"
    /\ balance_logs' = balance_logs
    /\ Len(orders') = Len(orders)
    /\ \A i \in DOMAIN orders : orders'[i].status = orders[i].status
    /\ wallet' = wallet

\* C35: update_base_balances_after_expiry sets base_balance of every PENDING
\* order of each credential whose balance query succeeds to that
\* credential's current balance; it changes no order of a credential whose
\* query fails, while the other credentials' orders are still updated; and
\* it never changes an order that is PAID or EXPIRED.
C35_RebasePerCredential ==
    [][IsRebase =>
        \A i \in DOMAIN orders :
            IF orders[i].status = PENDING /\ helper'.qok[orders[i].credential_id]
            THEN orders'[i] = [orders[i] EXCEPT
                    !.base_balance = wallet[orders[i].credential_id]]
            ELSE orders'[i] = orders[i]]_vars

\* A call whose query failed for credential 1 and succeeded for credential 2
\* has left the PENDING order of credential 1 at its base_balance and moved
\* that of credential 2 to the balance.
C35_Witness ==
    /\ helper.fn = "update_base_balances_after_expiry"
    /\ ~helper.qok[1] /\ helper.qok[2]
    /\ \E i, j \in DOMAIN orders :
        /\ orders[i].credential_id = 1 /\ orders[i].status = PENDING
        /\ orders[i].base_balance # wallet[1]
        /\ orders[j].credential_id = 2 /\ orders[j].status = PENDING
        /\ orders[j].base_balance = wallet[2]
        /\ orders[j].created_at = 0

\* No step changes the base_balance of an order.
BaseBalanceKept ==
    [][\A i \in DOMAIN orders :
            orders'[i].base_balance = orders[i].base_balance]_vars

\* C33: base_balance is written when the order is created and rewritten
\* afterwards only at a moment when every PENDING order of the same
\* credential created earlier has left PENDING; check_payment and the
\* admin's cancel never change it.
C33_RebaseAfterOlderLeft ==
    [][\A i \in DOMAIN orders :
            orders'[i].base_balance # orders[i].base_balance
                => /\ IsRebase
                   /\ \A j \in DOMAIN orders :
                        (j < i /\ orders[j].credential_id = orders[i].credential_id)
                            => orders[j].status # PENDING]_vars

\* The balance_logs hold a row of a check_payment call whose balance query
\* succeeded.
WalletAnswered ==
    \E r \in DOMAIN balance_logs :
        balance_logs[r].match_result # "query failed"

\* C34: an order created while the wallet query failed has base_balance 0,
\* and while it stays PENDING the poller overwrites its base_balance with a
\* balance read from the wallet (the wallets hold 1 or more): a poller that
\* has polled, the wallet having answered, does not time out on an order
\* whose base_balance is still 0.
C34_PollerRebasesZero ==
    [][\A k \in DOMAIN pollers :
            (/\ pollers[k].state = "running"
             /\ pollers[k].poll_count >= 1
             /\ WalletAnswered
             /\ pollers[k].trade_no \in DOMAIN orders
             /\ orders[pollers[k].trade_no].status = PENDING
             /\ orders'[pollers[k].trade_no].status = EXPIRED
             /\ pollers'[k].state = "done")
                => orders[pollers[k].trade_no].base_balance >= 1]_vars

\* ---- the warning after consecutive failures -----------------------------------

\* C36: for each credential the warning is logged at every failed wallet
\* query that is the third or a later consecutive failure on that
\* credential, and at no other query, whichever poller or query handler
\* makes the queries.
C36_WarnPerCredential ==
    (helper.fn = "query_balance" /\ helper.last.credential # 0) =>
        (helper.last.warn <=>
            (/\ ~helper.last.qok
             /\ helper.streak[helper.last.credential] >= WarnAfter))

\* ---- the amounts of a created order --------------------------------------------

\* The money of every order is its original_money plus an adjust_amount of
\* 0.00 to 0.99.
AdjustedWithinRange ==
    \A i \in DOMAIN orders :
        /\ orders[i].original_money <= orders[i].money
        /\ orders[i].money <= orders[i].original_money + (AdjustSteps - 1)
        /\ orders[i].adjust_amount = orders[i].money - orders[i].original_money

\* C37: every order create_order persisted has original_money >= 0.01,
\* original_money <= money <= original_money + 0.99 and adjust_amount =
\* money - original_money; a request whose money parses to less than 0.01
\* creates no order.
C37_AmountsOfCreatedOrders ==
    /\ AdjustedWithinRange
    /\ \A i \in DOMAIN orders : orders[i].original_money >= 1

\* ---- every order leaves PENDING -----------------------------------------------

\* C38: every created order eventually leaves PENDING: matched, expired by
\* its poller's timeout or cancelled, and otherwise, the poller having died,
\* expired by the periodic sweep. Stated for the orders created at time 0,
\* which the sweep reaches before the clock's bound.
C38_EveryOrderLeavesPending ==
    \A t \in 1..MaxOrders :
        (t \in DOMAIN orders /\ orders[t].created_at = 0)
            ~> (t \in DOMAIN orders /\ orders[t].status # PENDING)

\* The sweep expired an order whose poller never acted.
C38_Witness ==
    /\ Len(orders) >= 1
    /\ orders[1].created_at = 0
    /\ orders[1].status = EXPIRED
    /\ orders[1].expired_at = 2 * ExpireSeconds
    /\ pollers[1].state = "running"
    /\ pollers[1].poll_count = 0

\* ---- the merchants' stored balances -------------------------------------------

\* C39: in every state the stored balance of every merchant, which starts
\* at 0, is the sum of the money of that merchant's PAID orders, the value
\* get_merchant_info computes, whatever the interleaving of reconciliations,
\* expiry and the admin's cancel.
C39_StoredBalanceIsPaidSum ==
    \A m \in Merchants : merchant_money[m] = PaidMoneyOf(m)

\* An order of one merchant is PAID and an order of the other merchant has
\* been expired by the sweep.
C39_Witness ==
    \E i, j \in DOMAIN orders :
        /\ orders[i].merchant_id # orders[j].merchant_id
        /\ orders[i].status = PAID
        /\ orders[j].status = EXPIRED
        /\ orders[j].expired_at = 2 * ExpireSeconds
        /\ merchant_money[orders[i].merchant_id] = orders[i].money
        /\ merchant_money[orders[j].merchant_id] = 0

\* ---- the table of active pollers ----------------------------------------------

\* get_active_polling_count
GetActivePollingCount == Cardinality(DOMAIN active_tasks)

\* The poller tasks that are running.
Running == {k \in DOMAIN pollers : pollers[k].state = "running"}

\* Task k ends in this step.
Ends(k) ==
    /\ k \in DOMAIN pollers
    /\ pollers[k].state # "done"
    /\ pollers'[k].state = "done"

====
